---- MODULE Spec2Model ----
(***************************************************************************)
(* Package mapper of NekKkMirror/go-app: the registry `maps`, the profile  *)
(* cache `profiles`, the process-wide `mapperConfig`, and the operations   *)
(* CreateMap, CreateCustomMap, Configure and Map.                          *)
(*                                                                         *)
(* The operations are modelled from the two copies of the package:         *)
(*   src/unnamed/part_002, lines 439-820  (definitions without suffix)     *)
(*   src/unnamed/part_003, lines 1-492    (definitions with suffix _p3)    *)
(* The variable `build` says which copy the process was built from; both   *)
(* copies declare the same package state.  A third copy, part_002 lines    *)
(* 47-437, is the undocumented predecessor of the copy in part_003 and is  *)
(* not modelled.                                                           *)
(*                                                                         *)
(* Further specifications over the same state: SpecProfile (the profiles   *)
(* CreateMap builds), SpecStructs (struct types with methods, nested       *)
(* structs and unexported fields), SpecEngine (the value transfer on maps  *)
(* and on values of different kinds), SpecConc (goroutines that call the   *)
(* package at the same time), SpecCycle (Map of a linked source),          *)
(* SpecCatalog (package typemapper, src/internal/pkg/reflection/           *)
(* type_mapper) and SpecPagination (src/internal/pkg/utils/db/pagination). *)
(***************************************************************************)
EXTENDS Integers, Sequences, FiniteSets, TLC

VARIABLES
    build,          \* the copy of the package the process runs
    maps,           \* var maps: mappingsEntry -> interface{}
    profiles,       \* var profiles: profile key -> [][2]string
    mapperConfig,   \* var mapperConfig *Config
    ret,            \* the last call: its arguments and what it returned
    created,        \* history: the type arguments of the CreateMap calls that returned nil
    gor,            \* the goroutines that run calls of the package step by step
    walk,           \* a Map of a linked source: the heap and the call stack of processValues
    types,          \* package typemapper, var types: type name -> reflect.Type
    packages        \* package typemapper, var packages: package path -> name -> reflect.Type

vars == <<build, maps, profiles, mapperConfig, ret, created, gor, walk, types, packages>>

(***************************************************************************)
(* Bounds of the model.                                                    *)
(***************************************************************************)
\* longest slice handed to Map
MaxLen == 2
\* number of goroutines that call the package concurrently
NumGoroutines == 2
\* number of Node values in the heap of a linked source
NumNodes == 2
\* deepest recursion of processValues that is followed
MaxDepth == 4

(***************************************************************************)
(* Identifiers: Go strings that the code takes apart (field names, tags,   *)
(* type names, profile keys) are sequences of one-character strings.       *)
(***************************************************************************)
Lower == <<"a","b","c","d","e","f","g","h","i","j","k","l","m",
           "n","o","p","q","r","s","t","u","v","w","x","y","z">>
Upper == <<"A","B","C","D","E","F","G","H","I","J","K","L","M",
           "N","O","P","Q","R","S","T","U","V","W","X","Y","Z">>

IsCap(c) == \E i \in 1..26 : Upper[i] = c
IsLow(c) == \E i \in 1..26 : Lower[i] = c
ToLowerCh(c) == IF IsCap(c) THEN Lower[CHOOSE i \in 1..26 : Upper[i] = c] ELSE c

\* strcase.ToCamel (github.com/iancoleman/strcase, toCamelInitCase with
\* initCase = true): the loop over the bytes of s, carrying capNext and
\* prevIsCap; letters are written, digits are written and capitalise the
\* next letter, the separators _ space - . are dropped and capitalise the
\* next letter, every other byte is dropped.
RECURSIVE camelLoop(_, _, _, _, _)
camelLoop(s, i, capNext, prevIsCap, out) ==
    IF i > Len(s) THEN out
    ELSE LET c == s[i]
             v == IF capNext
                    THEN (IF IsLow(c) THEN Upper[CHOOSE u \in 1..26 : Lower[u] = c] ELSE c)
                  ELSE IF i = 1 THEN ToLowerCh(c)
                  ELSE IF prevIsCap /\ IsCap(c) THEN ToLowerCh(c)
                  ELSE c
         IN  IF IsCap(c) \/ IsLow(c)
               THEN camelLoop(s, i + 1, FALSE, IsCap(c), Append(out, v))
             ELSE IF c \in {"0","1","2","3","4","5","6","7","8","9"}
               THEN camelLoop(s, i + 1, TRUE, FALSE, Append(out, v))
             ELSE camelLoop(s, i + 1, c \in {"_", " ", "-", "."}, FALSE, out)

ToCamel(s) == camelLoop(s, 1, TRUE, FALSE, <<>>)

(***************************************************************************)
(* Types (reflect.Type).  A type is a sequence of strings: constructors    *)
(* "ptr", "slice" and "map" in front of the identity of a named or basic   *)
(* type.                                                                   *)
(* The named types are Source and Destination of the tests of the package, *)
(* Tagged and TaggedDest with `mapper` alias tags, the self-referential    *)
(* Node and NodeDst, and Test of package typemapper; OtherSource and       *)
(* OtherDestination are the types Source and Destination of another        *)
(* package; Person has methods, Outer holds a struct field, Account an     *)
(* unexported field with an accessor.  The basic types are int and string; *)
(* <<"map", K>> \o V is the type map[K]V with a basic key type K.  A name, *)
(* a tag or a type name that the code inspects letter by letter is a       *)
(* sequence of one-character strings.                                      *)
(***************************************************************************)
PointerTo(T) == <<"ptr">> \o T
SliceOf(T)   == <<"slice">> \o T

\* reflect.Kind; every named type of the model is a struct type
Kind(T) ==
    IF T[1] \in {"ptr", "slice", "map"} THEN T[1]
    ELSE IF T[1] \in {"int", "string"} THEN T[1]
    ELSE "struct"
\* reflect.Type.Elem(): the target, element or value type
Elem(T) == IF T[1] = "map" THEN Tail(Tail(T)) ELSE Tail(T)

\* reflect.Type.Name(): the short name of a named type, "" for a pointer or
\* a slice type
TypeName(T) ==
    IF T[1] \in {"ptr", "slice", "map"} THEN <<>>
    ELSE CASE T \in {<<"Source">>, <<"OtherSource">>} -> <<"S","o","u","r","c","e">>
           [] T \in {<<"Destination">>, <<"OtherDestination">>} ->
                  <<"D","e","s","t","i","n","a","t","i","o","n">>
           [] T = <<"Person">>      -> <<"P","e","r","s","o","n">>
           [] T = <<"PersonDst">>   -> <<"P","e","r","s","o","n","D","s","t">>
           [] T = <<"Outer">>       -> <<"O","u","t","e","r">>
           [] T = <<"OuterDst">>    -> <<"O","u","t","e","r","D","s","t">>
           [] T = <<"Inner">>       -> <<"I","n","n","e","r">>
           [] T = <<"InnerDst">>    -> <<"I","n","n","e","r","D","s","t">>
           [] T = <<"Account">>     -> <<"A","c","c","o","u","n","t">>
           [] T = <<"AccountDst">>  -> <<"A","c","c","o","u","n","t","D","s","t">>
           [] T = <<"int">>         -> <<"i","n","t">>
           [] T = <<"string">>      -> <<"s","t","r","i","n","g">>
           [] T = <<"Tagged">>      -> <<"T","a","g","g","e","d">>
           [] T = <<"TaggedDest">>  -> <<"T","a","g","g","e","d","D","e","s","t">>
           [] T = <<"Node">>        -> <<"N","o","d","e">>
           [] T = <<"NodeDst">>     -> <<"N","o","d","e","D","s","t">>
           [] T = <<"Test">>        -> <<"T","e","s","t">>

\* the struct types of the model, as the tests declare them:
\* type Source struct { Name string; Age int }, the same for Destination.
\* A field is (name, `mapper` tag, type); methods are the exported methods
\* of the value receiver in reflect's (sorted) order.
\*   type Tagged struct {
\*       user_name string
\*       note      string
\*       Email     string
\*       id        string `mapper:"identifier"`
\*       Code      string `mapper:"k"`
\*       Extra     string
\*   }
\*   type TaggedDest struct {
\*       UserName   string
\*       note       string
\*       Mail       string `mapper:"Email"`
\*       identifier string
\*       Key        string `mapper:"k"`
\*   }
\*   type Node struct { Next *Node }
\*   type NodeDst struct { Next *NodeDst }
\*   type Test struct { Field1 string; Field2 int }
\*   package other: type Source struct { Title string }, the same for Destination
\*   type Person struct { First string }
\*       func (p Person) Full() string               { return p.First }
\*       func (p Person) Greet(name string) string   { return name }
\*   type PersonDst struct { First string; Full string; Greet string }
\*   type Inner struct { V int }, the same for InnerDst
\*   type Outer struct { In Inner }
\*   type OuterDst struct { In InnerDst }
\*   type Account struct { secret string `mapper:"Code"` }
\*       func (a Account) Secret() string             { return "masked" }
\*   type AccountDst struct { Code string }
StructFields(T) ==
    LET fld(n, g, t) == [name |-> n, tag |-> g, type |-> t]
        str == <<"string">>
    IN  CASE T \in {<<"Source">>, <<"Destination">>} ->
               << fld(<<"N","a","m","e">>, <<>>, str),
                  fld(<<"A","g","e">>, <<>>, <<"int">>) >>
          [] T = <<"Tagged">> ->
               << fld(<<"u","s","e","r","_","n","a","m","e">>, <<>>, str),
                  fld(<<"n","o","t","e">>, <<>>, str),
                  fld(<<"E","m","a","i","l">>, <<>>, str),
                  fld(<<"i","d">>, <<"i","d","e","n","t","i","f","i","e","r">>, str),
                  fld(<<"C","o","d","e">>, <<"k">>, str),
                  fld(<<"E","x","t","r","a">>, <<>>, str) >>
          [] T = <<"TaggedDest">> ->
               << fld(<<"U","s","e","r","N","a","m","e">>, <<>>, str),
                  fld(<<"n","o","t","e">>, <<>>, str),
                  fld(<<"M","a","i","l">>, <<"E","m","a","i","l">>, str),
                  fld(<<"i","d","e","n","t","i","f","i","e","r">>, <<>>, str),
                  fld(<<"K","e","y">>, <<"k">>, str) >>
          [] T = <<"Node">> ->
               << fld(<<"N","e","x","t">>, <<>>, PointerTo(<<"Node">>)) >>
          [] T = <<"NodeDst">> ->
               << fld(<<"N","e","x","t">>, <<>>, PointerTo(<<"NodeDst">>)) >>
          [] T = <<"Test">> ->
               << fld(<<"F","i","e","l","d","1">>, <<>>, str),
                  fld(<<"F","i","e","l","d","2">>, <<>>, <<"int">>) >>
          [] T \in {<<"OtherSource">>, <<"OtherDestination">>} ->
               << fld(<<"T","i","t","l","e">>, <<>>, str) >>
          [] T = <<"Person">> ->
               << fld(<<"F","i","r","s","t">>, <<>>, str) >>
          [] T = <<"PersonDst">> ->
               << fld(<<"F","i","r","s","t">>, <<>>, str),
                  fld(<<"F","u","l","l">>, <<>>, str),
                  fld(<<"G","r","e","e","t">>, <<>>, str) >>
          [] T \in {<<"Inner">>, <<"InnerDst">>} ->
               << fld(<<"V">>, <<>>, <<"int">>) >>
          [] T = <<"Outer">> ->
               << fld(<<"I","n">>, <<>>, <<"Inner">>) >>
          [] T = <<"OuterDst">> ->
               << fld(<<"I","n">>, <<>>, <<"InnerDst">>) >>
          [] T = <<"Account">> ->
               << fld(<<"s","e","c","r","e","t">>, <<"C","o","d","e">>, str) >>
          [] T = <<"AccountDst">> ->
               << fld(<<"C","o","d","e">>, <<>>, str) >>

FieldNames(T) == {StructFields(T)[i].name : i \in 1..Len(StructFields(T))}
FieldType(T, n) ==
    StructFields(T)[CHOOSE i \in 1..Len(StructFields(T)) : StructFields(T)[i].name = n].type

(***************************************************************************)
(* Errors and registry entries.                                            *)
(***************************************************************************)
NoErr               == "nil"
ErrNilFunction      == "mapper: nil function"
ErrMapNotExist      == "mapper: map does not exist"
ErrMapAlreadyExists == "mapper: map already exists"
ErrUnsupportedMap   == "mapper: unsupported map"
\* the call did not return: a run-time panic of package reflect
Panic               == "panic"

\* values of maps[k]: the nil interface, the empty struct value, or a
\* function of type mapFunc
NilEntry    == "nil"
\* func(s Source) Destination { return Destination{Name: s.Name} }
fnCopyName  == "fnCopyName"
\* func(src Source) Destination { return Destination{} }
fnZero      == "fnZero"
Fns         == {fnCopyName, fnZero}
NilFn       == "nil"

mappingsEntry(s, d) == <<s, d>>

(***************************************************************************)
(* Values (reflect.Value of a Go value).  Every value is a record of the   *)
(* same shape: its type t, whether it is the nil slice / nil pointer, and  *)
(* one payload per kind: i (int), s (string), f (struct: field name ->     *)
(* value), e (slice: the elements; pointer: the one target), a (pointer:   *)
(* the allocation the target lives in).                                    *)
(***************************************************************************)
\* the allocations are "caller", made by the caller of the package, and
\* "reflect.New", made by reflect.New inside the package
mkInt(n)          == [t |-> <<"int">>,    nil |-> FALSE, i |-> n, s |-> "", f |-> <<>>, e |-> <<>>, a |-> ""]
mkString(x)       == [t |-> <<"string">>, nil |-> FALSE, i |-> 0, s |-> x,  f |-> <<>>, e |-> <<>>, a |-> ""]
mkStruct(T, flds) == [t |-> T,       nil |-> FALSE, i |-> 0, s |-> "", f |-> flds, e |-> <<>>, a |-> ""]
mkSlice(T, elems) == [t |-> T,       nil |-> FALSE, i |-> 0, s |-> "", f |-> <<>>, e |-> elems, a |-> ""]
mkPtr(T, at, x)   == [t |-> T,       nil |-> FALSE, i |-> 0, s |-> "", f |-> <<>>, e |-> <<x>>, a |-> at]
mkNil(T)          == [t |-> T,       nil |-> TRUE,  i |-> 0, s |-> "", f |-> <<>>, e |-> <<>>, a |-> ""]
\* a map value: f takes each key (a value) to the value stored under it
mkMap(T, entries) == [t |-> T,       nil |-> FALSE, i |-> 0, s |-> "", f |-> entries, e |-> <<>>, a |-> ""]
\* the invalid reflect.Value, also used where a call carries no value
NoValue           == [t |-> <<>>,    nil |-> TRUE,  i |-> 0, s |-> "", f |-> <<>>, e |-> <<>>, a |-> ""]

\* reflect.Zero(T) / `var x T`
RECURSIVE Zero(_)
Zero(T) ==
    CASE Kind(T) = "int"    -> mkInt(0)
      [] Kind(T) = "string" -> mkString("")
      [] Kind(T) = "struct" -> mkStruct(T, [n \in FieldNames(T) |-> Zero(FieldType(T, n))])
      [] Kind(T) \in {"slice", "ptr", "map"} -> mkNil(T)

(***************************************************************************)
(* Profile builder.                                                        *)
(***************************************************************************)
\* getTypeMeta: keysToTags maps every field name to its tag; tagsToKeys
\* maps every non-empty tag to the last field that carries it.
getTypeMeta(T) ==
    LET fs == StructFields(T)
        tags == {fs[i].tag : i \in 1..Len(fs)} \ {<<>>}
        lastWith(g) == CHOOSE i \in 1..Len(fs) :
                          /\ fs[i].tag = g
                          /\ \A j \in 1..Len(fs) : fs[j].tag = g => j <= i
    IN  [keysToTags |-> [n \in FieldNames(T) |-> fs[CHOOSE i \in 1..Len(fs) : fs[i].name = n].tag],
         tagsToKeys |-> [g \in tags |-> fs[lastWith(g)].name]]

\* getTypeMethods: the names of the exported methods of the value receiver,
\* in the order of reflect (sorted by name), whatever their parameters
getTypeMethods(T) ==
    CASE T = <<"Person">>  -> << <<"F","u","l","l">>, <<"G","r","e","e","t">> >>
      [] T = <<"Account">> -> << <<"S","e","c","r","e","t">> >>
      [] OTHER             -> <<>>

\* getDestinationKey without the rule "a destination field named like the
\* source's alias tag"
getDestinationKey_noTagName(srcKey, srcTag, destMeta) ==
    IF ToCamel(srcKey) \in DOMAIN destMeta.keysToTags THEN <<ToCamel(srcKey), TRUE>>
    ELSE IF srcKey \in DOMAIN destMeta.keysToTags THEN <<srcKey, TRUE>>
    ELSE IF srcKey \in DOMAIN destMeta.tagsToKeys THEN <<destMeta.tagsToKeys[srcKey], TRUE>>
    ELSE IF srcTag \in DOMAIN destMeta.tagsToKeys THEN <<destMeta.tagsToKeys[srcTag], TRUE>>
    ELSE <<<<>>, FALSE>>

\* getDestinationKey of part_002: the first rule that matches, as <<key, ok>>
getDestinationKey(srcKey, srcTag, destMeta) ==
    IF ToCamel(srcKey) \in DOMAIN destMeta.keysToTags THEN <<ToCamel(srcKey), TRUE>>
    ELSE IF srcKey \in DOMAIN destMeta.keysToTags THEN <<srcKey, TRUE>>
    ELSE IF srcKey \in DOMAIN destMeta.tagsToKeys THEN <<destMeta.tagsToKeys[srcKey], TRUE>>
    ELSE IF srcTag \in DOMAIN destMeta.keysToTags THEN <<srcTag, TRUE>>
    ELSE IF srcTag \in DOMAIN destMeta.tagsToKeys THEN <<destMeta.tagsToKeys[srcTag], TRUE>>
    ELSE <<<<>>, FALSE>>

\* the method loop shared by both copies: a correspondence (m, m) for every
\* source method named like a destination field
RECURSIVE methodEntries(_, _)
methodEntries(ms, destMeta) ==
    IF ms = <<>> THEN <<>>
    ELSE (IF Head(ms) \in DOMAIN destMeta.keysToTags
            THEN << <<Head(ms), Head(ms)>> >> ELSE <<>>)
         \o methodEntries(Tail(ms), destMeta)

\* the field loop of createProfile (part_002).  `order` is the order in
\* which `range srcMeta.keysToTags` yields the source field names.
RECURSIVE fieldEntries(_, _, _)
fieldEntries(order, srcMeta, destMeta) ==
    IF order = <<>> THEN <<>>
    ELSE LET srcKey == Head(order)
             r == getDestinationKey(srcKey, srcMeta.keysToTags[srcKey], destMeta)
         IN  (IF r[2] THEN << <<srcKey, r[1]>> >> ELSE <<>>)
             \o fieldEntries(Tail(order), srcMeta, destMeta)

\* createProfile with a correspondence for every source method
createProfile_allMethods(srcType, desType, order) ==
    fieldEntries(order, getTypeMeta(srcType), getTypeMeta(desType))
      \o [k \in 1..Len(getTypeMethods(srcType)) |->
            <<getTypeMethods(srcType)[k], getTypeMethods(srcType)[k]>>]

createProfile(srcType, desType, order) ==
    fieldEntries(order, getTypeMeta(srcType), getTypeMeta(desType))
      \o methodEntries(getTypeMethods(srcType), getTypeMeta(desType))

\* the field loop of configProfile (part_003): the camel-case match is
\* appended without `continue`, so a second rule may append as well.
RECURSIVE fieldEntries_p3(_, _, _)
fieldEntries_p3(order, srcMeta, destMeta) ==
    IF order = <<>> THEN <<>>
    ELSE LET srcKey == Head(order)
             srcTag == srcMeta.keysToTags[srcKey]
             camel == IF ToCamel(srcKey) \in DOMAIN destMeta.keysToTags
                        THEN << <<srcKey, ToCamel(srcKey)>> >> ELSE <<>>
             rest == IF srcKey \in DOMAIN destMeta.keysToTags
                       THEN << <<srcKey, srcKey>> >>
                     ELSE IF srcKey \in DOMAIN destMeta.tagsToKeys
                       THEN << <<srcKey, destMeta.tagsToKeys[srcKey]>> >>
                     ELSE IF srcTag \in DOMAIN destMeta.keysToTags
                       THEN << <<srcKey, srcTag>> >>
                     ELSE IF srcTag \in DOMAIN destMeta.tagsToKeys
                       THEN << <<srcKey, destMeta.tagsToKeys[srcTag]>> >>
                     ELSE <<>>
         IN  camel \o rest \o fieldEntries_p3(Tail(order), srcMeta, destMeta)

\* getProfileKey: fmt.Sprintf("%s_%s", srcType.Name(), desType.Name())
getProfileKey(srcType, desType) == TypeName(srcType) \o <<"_">> \o TypeName(desType)

\* the orders in which ranging over the keysToTags map of T can yield its keys
RECURSIVE Perms(_)
Perms(S) ==
    IF S = {} THEN {<<>>}
    ELSE UNION {{<<x>> \o p : p \in Perms(S \ {x})} : x \in S}

RangeOrders(T) == Perms(FieldNames(T))

Put(m, k, v) == [x \in DOMAIN m \cup {k} |-> IF x = k THEN v ELSE m[x]]

\* configProfile of part_002: <<err, profiles'>>
configProfile(srcType, desType, order, profs) ==
    IF Kind(srcType) # "struct" \/ Kind(desType) # "struct"
      THEN <<"mapper: expected reflect.Struct kind for type", profs>>
      ELSE <<NoErr, Put(profs, getProfileKey(srcType, desType),
                        createProfile(srcType, desType, order))>>

\* configProfile of part_003: the kind checks only log; the profile is
\* built and stored (flag.Parse() touches no state of the package)
configProfile_p3(srcType, desType, order, profs) ==
    Put(profs, getProfileKey(srcType, desType),
        fieldEntries_p3(order, getTypeMeta(srcType), getTypeMeta(desType))
          \o methodEntries(getTypeMethods(srcType), getTypeMeta(desType)))

isStructOrPointerToStruct(T) ==
    Kind(T) = "struct" \/ (Kind(T) = "ptr" /\ Kind(Elem(T)) = "struct")

getBaseType(T) ==
    IF Kind(T) = "ptr" /\ Kind(Elem(T)) = "struct" THEN Elem(T) ELSE T

(***************************************************************************)
(* Value transfer engine of part_002.                                      *)
(*                                                                         *)
(* A source reflect.Value is a value with its flags fl = [addr, ro]:       *)
(* addr = addressable, ro = reached through an unexported field.  A        *)
(* destination carries dro = reached through an unexported field (it is    *)
(* always addressable: it descends from reflect.ValueOf(&des).Elem()).     *)
(* Every operator returns the new destination value, or PanicV when        *)
(* package reflect panics.                                                 *)
(***************************************************************************)
PanicV == [t |-> <<"panic">>, nil |-> TRUE, i |-> 0, s |-> "", f |-> <<>>, e |-> <<>>, a |-> ""]

IsValid(v) == v.t # <<>>
\* an identifier is exported when it starts with an upper-case letter
IsExported(n) == n # <<>> /\ IsCap(n[1])

TopFlags == [addr |-> FALSE, ro |-> FALSE]

\* getFieldValueFromMethod: the first result of method.Call(nil) for the
\* method `name` of val, or the invalid Value when val.MethodByName(name) is
\* not a function.  Call(nil) panics for a method that takes an argument.
getFieldValueFromMethod(val, name) ==
    CASE val.t = <<"Person">> /\ name = <<"F","u","l","l">>      -> val.f[<<"F","i","r","s","t">>]
      [] val.t = <<"Person">> /\ name = <<"G","r","e","e","t">>  -> PanicV
      [] val.t = <<"Account">> /\ name = <<"S","e","c","r","e","t">> -> mkString("masked")
      [] OTHER -> NoValue

\* retrieveSourceFieldValue: <<value, flags>>, or <<PanicV, flags>>
retrieveSourceFieldValue(src, fl, fieldName) ==
    IF fieldName \in DOMAIN src.f
      THEN LET ffl == [addr |-> fl.addr, ro |-> fl.ro \/ ~IsExported(fieldName)]
           IN  IF ~ffl.ro \/ ~mapperConfig.MapUnexportedFields
                 THEN <<src.f[fieldName], ffl>>
               \* GetFieldValue: reflect.NewAt(field.Type(), field.UnsafeAddr())
               ELSE IF ~fl.addr THEN <<PanicV, ffl>>
               ELSE <<src.f[fieldName], [addr |-> TRUE, ro |-> FALSE]>>
      \* src.Addr() panics on a value that is not addressable
      ELSE IF ~fl.addr THEN <<PanicV, fl>>
      ELSE <<getFieldValueFromMethod(src, ToCamel(fieldName)), [addr |-> FALSE, ro |-> FALSE]>>

RECURSIVE processValues(_, _, _, _)
RECURSIVE mapStructsLoop(_, _, _, _, _, _)
RECURSIVE mapSlicesLoop(_, _, _, _)

\* the loop of mapStructs over the profile, from correspondence k on
mapStructsLoop(profile, k, src, fl, dest, dro) ==
    IF k > Len(profile) THEN dest
    ELSE LET keys == profile[k]
             sf == retrieveSourceFieldValue(src, fl, keys[1])
         IN  IF sf[1] = PanicV THEN PanicV
             \* dest.FieldByName panics unless dest is a struct
             ELSE IF Kind(dest.t) # "struct" THEN PanicV
             ELSE LET has == keys[2] \in DOMAIN dest.f
                      destinationField == IF has THEN dest.f[keys[2]] ELSE NoValue
                      r == processValues(sf[1], sf[2], destinationField,
                                           dro \/ ~IsExported(keys[2]))
                  IN  IF r = PanicV THEN PanicV
                      ELSE mapStructsLoop(profile, k + 1, src, fl,
                                          IF has THEN [dest EXCEPT !.f[keys[2]] = r] ELSE dest,
                                          dro)

mapStructs(src, fl, dest, dro) ==
    \* dest.Type() panics on the invalid Value
    IF ~IsValid(dest) THEN PanicV
    ELSE LET profileKey == getProfileKey(src.t, dest.t)
         IN  IF profileKey \notin DOMAIN profiles THEN dest
             ELSE mapStructsLoop(profiles[profileKey], 1, src, fl, dest, dro)

\* the loop of mapSlices, from element i on
mapSlicesLoop(src, fl, dest, i) ==
    IF i > Len(src.e) THEN dest
    ELSE LET r == processValues(src.e[i], [addr |-> TRUE, ro |-> fl.ro], dest.e[i], FALSE)
         IN  IF r = PanicV THEN PanicV
             ELSE mapSlicesLoop(src, fl, [dest EXCEPT !.e[i] = r], i + 1)

mapSlices(src, fl, dest, dro) ==
    \* dest.Type() on the invalid Value, reflect.MakeSlice of a type that is
    \* not a slice, and dest.Set on a read-only destination panic
    IF ~IsValid(dest) THEN PanicV
    ELSE IF Kind(dest.t) # "slice" \/ dro THEN PanicV
    ELSE mapSlicesLoop(src, fl,
                       mkSlice(dest.t, [k \in 1..Len(src.e) |-> Zero(Elem(dest.t))]), 1)

\* mapPointers of part_002.  dest.Set panics on the invalid or read-only
\* destination; reflect.New(dest.Type().Elem()) is assignable to dest only
\* when dest is a pointer.  src.Elem() is addressable.
mapPointers(src, fl, dest, dro) ==
    IF ~IsValid(dest) \/ dro THEN PanicV
    ELSE IF src.nil THEN Zero(dest.t)
    ELSE IF Kind(dest.t) # "ptr" THEN PanicV
    ELSE LET r == processValues(src.e[1], [addr |-> TRUE, ro |-> fl.ro],
                                Zero(Elem(dest.t)), FALSE)
         IN  IF r = PanicV THEN PanicV ELSE mkPtr(dest.t, "reflect.New", r)

\* mapMaps of part_002: the destination becomes a new map that holds, for
\* each source entry, the transferred key with the transferred value, both
\* transferred into new zero values of the destination's key and value
\* types.  MapRange hands out keys and values that are not addressable.
\* dest.Type() on the invalid Value, MakeMapWithSize of a type that is not a
\* map and dest.Set on a read-only destination panic.
mapMaps(src, fl, dest, dro) ==
    IF ~IsValid(dest) THEN PanicV
    ELSE IF Kind(dest.t) # "map" \/ dro THEN PanicV
    ELSE LET efl == [addr |-> FALSE, ro |-> fl.ro]
             destKey(k) == processValues(k, efl, Zero(<<dest.t[2]>>), FALSE)
             destValue(k) == processValues(src.f[k], efl, Zero(Elem(dest.t)), FALSE)
         IN  IF \E k \in DOMAIN src.f : destKey(k) = PanicV \/ destValue(k) = PanicV
               THEN PanicV
               ELSE mkMap(dest.t,
                          [dk \in {destKey(k) : k \in DOMAIN src.f} |->
                              destValue(CHOOSE k \in DOMAIN src.f : destKey(k) = dk)])

processValues(src, fl, dest, dro) ==
    CASE IsValid(src) /\ Kind(src.t) = "struct" -> mapStructs(src, fl, dest, dro)
      [] IsValid(src) /\ Kind(src.t) = "slice"  -> mapSlices(src, fl, dest, dro)
      [] IsValid(src) /\ Kind(src.t) = "map"    -> mapMaps(src, fl, dest, dro)
      [] IsValid(src) /\ Kind(src.t) = "ptr"    -> mapPointers(src, fl, dest, dro)
      \* default: dest.Set(src) needs both Values valid and exported and the
      \* source type assignable to the destination type
      [] OTHER -> IF ~IsValid(src) \/ ~IsValid(dest) \/ fl.ro \/ dro \/ src.t # dest.t
                    THEN PanicV
                    ELSE src

(***************************************************************************)
(* Map of part_002.                                                        *)
(***************************************************************************)
\* getElementType: <<element type, isArray>>
getElementType(T) ==
    IF Kind(T) = "slice" THEN <<Elem(T), TRUE>>
    ELSE IF Kind(T) = "ptr" /\ Kind(Elem(T)) = "slice" THEN <<Elem(Elem(T)), TRUE>>
    ELSE <<T, FALSE>>

\* getMappingFunction without the miss: a missing key reads as the nil entry
getMappingFunction_noMiss(srcType, desType) ==
    LET key == mappingsEntry(srcType, desType)
    IN  IF key \notin DOMAIN maps THEN <<NilEntry, NoErr>>
        ELSE <<maps[key], NoErr>>

\* getMappingFunction: <<fn, err>>
getMappingFunction(srcType, desType) ==
    LET key == mappingsEntry(srcType, desType)
    IN  IF key \notin DOMAIN maps THEN <<NilEntry, ErrMapNotExist>>
        ELSE <<maps[key], NoErr>>

\* fnReflect.Call([]reflect.Value{x})[0]: the two functions of the tests
\* take a Source and return a Destination; Call panics when fn is not a
\* function or x is not a Source
CallFn(fn, x) ==
    IF fn \notin Fns \/ x.t # <<"Source">> THEN PanicV
    ELSE IF fn = fnCopyName
      THEN mkStruct(<<"Destination">>,
                    [n \in FieldNames(<<"Destination">>) |->
                        IF n = <<"N","a","m","e">> THEN x.f[<<"N","a","m","e">>] ELSE Zero(FieldType(<<"Destination">>, n))])
      ELSE Zero(<<"Destination">>)

\* mapArray: linq.From(src).Select(fn).ToSlice(des).  ToSlice stores the
\* results in order and reslices des to their number; a nil des stays nil
\* when there is no element.
mapArray(fn, src, des) ==
    IF Kind(src.t) # "slice" THEN PanicV
    ELSE LET out == [k \in 1..Len(src.e) |-> CallFn(fn, src.e[k])]
         IN  IF \E k \in 1..Len(out) : out[k] = PanicV \/ out[k].t # Elem(des.t)
               THEN PanicV
             ELSE IF Len(out) = 0 THEN des
             ELSE mkSlice(des.t, out)

\* customCall without the return: the result of fn is handed on to
\* processValues
customCall_fallThrough(fn, TDes, src) ==
    LET mappedValue == CallFn(fn, src)
        r == IF mappedValue = PanicV \/ mappedValue.t # TDes THEN PanicV
             ELSE processValues(src, TopFlags, mappedValue, FALSE)
    IN  IF r = PanicV THEN [err |-> Panic, val |-> NoValue, pv |-> FALSE]
        ELSE [err |-> NoErr, val |-> r, pv |-> TRUE]

\* the branch of Map for a function entry when source and destination are
\* not both sequences: return fn(src).(TDes)
customCall(fn, TDes, src) ==
    LET mappedValue == CallFn(fn, src)
    IN  \* mappedValue.(TDes) panics unless the result is a TDes
        IF mappedValue = PanicV \/ mappedValue.t # TDes
          THEN [err |-> Panic, val |-> NoValue, pv |-> FALSE]
          ELSE [err |-> NoErr, val |-> mappedValue, pv |-> FALSE]

\* the outcome of Map[TSrc, TDes](src): [err, val, pv], pv = processValues ran
MapResult(TSrc, TDes, src) ==
    LET des == Zero(TDes)
        se == getElementType(TSrc)
        de == getElementType(TDes)
        g == getMappingFunction(se[1], de[1])
        fn == g[1]
    IN  IF g[2] # NoErr THEN [err |-> g[2], val |-> des, pv |-> FALSE]
        ELSE IF fn # NilEntry /\ ~(de[2] /\ se[2]) THEN customCall(fn, TDes, src)
        ELSE LET des1 == IF fn # NilEntry THEN mapArray(fn, src, des) ELSE des
                 r == IF des1 = PanicV THEN PanicV
                      ELSE processValues(src, TopFlags, des1, FALSE)
             IN  IF r = PanicV THEN [err |-> Panic, val |-> NoValue, pv |-> des1 # PanicV]
                 ELSE [err |-> NoErr, val |-> r, pv |-> TRUE]

(***************************************************************************)
(* Value transfer engine and Map of part_003.                              *)
(***************************************************************************)
\* the source value of one correspondence in mapStructs of part_003
sourceFieldValue_p3(src, fl, key) ==
    IF key \in DOMAIN src.f
      THEN LET ffl == [addr |-> fl.addr, ro |-> fl.ro \/ ~IsExported(key)]
           IN  IF ffl.ro
                 THEN IF ~fl.addr THEN <<PanicV, ffl>>
                      ELSE IF mapperConfig.MapUnexportedFields
                        THEN <<src.f[key], [addr |-> TRUE, ro |-> FALSE]>>
                        ELSE <<getFieldValueFromMethod(src, ToCamel(key)),
                               [addr |-> FALSE, ro |-> FALSE]>>
                 ELSE <<src.f[key], ffl>>
      ELSE IF ~fl.addr THEN <<PanicV, fl>>
      ELSE <<getFieldValueFromMethod(src, ToCamel(key)), [addr |-> FALSE, ro |-> FALSE]>>

RECURSIVE processValues_p3(_, _, _, _)
RECURSIVE mapStructsLoop_p3(_, _, _, _, _, _)
RECURSIVE mapSlicesLoop_p3(_, _, _, _)

mapStructsLoop_p3(profile, k, src, fl, dest, dro) ==
    IF k > Len(profile) THEN dest
    ELSE LET keys == profile[k]
             has == keys[2] \in DOMAIN dest.f
             destinationField == IF has THEN dest.f[keys[2]] ELSE NoValue
             sf == sourceFieldValue_p3(src, fl, keys[1])
         IN  IF sf[1] = PanicV THEN PanicV
             ELSE LET r == processValues_p3(sf[1], sf[2], destinationField,
                                            dro \/ ~IsExported(keys[2]))
                  IN  IF r = PanicV THEN PanicV
                      ELSE mapStructsLoop_p3(profile, k + 1, src, fl,
                                             IF has THEN [dest EXCEPT !.f[keys[2]] = r] ELSE dest,
                                             dro)

mapStructs_p3(src, fl, dest, dro) ==
    LET profileKey == getProfileKey(src.t, dest.t)
    IN  IF profileKey \notin DOMAIN profiles THEN dest
        ELSE mapStructsLoop_p3(profiles[profileKey], 1, src, fl, dest, dro)

mapSlicesLoop_p3(src, fl, dest, i) ==
    IF i > Len(src.e) THEN dest
    ELSE LET r == processValues_p3(src.e[i], [addr |-> TRUE, ro |-> fl.ro], dest.e[i], FALSE)
         IN  IF r = PanicV THEN PanicV
             ELSE mapSlicesLoop_p3(src, fl, [dest EXCEPT !.e[i] = r], i + 1)

mapSlices_p3(src, fl, dest, dro) ==
    IF dro THEN PanicV
    ELSE mapSlicesLoop_p3(src, fl,
                          mkSlice(dest.t, [k \in 1..Len(src.e) |-> Zero(Elem(dest.t))]), 1)

\* mapPointers of part_003: no nil check.  src.Elem() of the nil pointer is
\* the invalid Value, which processValues leaves alone; the destination is
\* set to the address of the new value in either case.
mapPointers_p3(src, fl, dest, dro) ==
    LET val == Zero(Elem(dest.t))
        r == processValues_p3(IF src.nil THEN NoValue ELSE src.e[1],
                              [addr |-> TRUE, ro |-> fl.ro], val, FALSE)
    IN  IF r = PanicV \/ dro THEN PanicV ELSE mkPtr(dest.t, "reflect.New", r)

\* mapMaps of part_003: the destination becomes a new empty map, and the
\* loop runs while destMapIter.Next() && srcMapIter.Next(), with destMapIter
\* ranging over that empty map: no entry is transferred
mapMaps_p3(src, fl, dest, dro) ==
    IF dro THEN PanicV ELSE mkMap(dest.t, <<>>)

processValues_p3(src, fl, dest, dro) ==
    IF ~IsValid(src) \/ ~IsValid(dest) THEN dest
    ELSE IF Kind(src.t) # Kind(dest.t) THEN dest
    ELSE IF src.t # dest.t
      \* reflectionHelper.SetFieldValue(dest, src.Interface())
      THEN IF fl.ro \/ src.t # dest.t THEN PanicV ELSE src
    ELSE CASE Kind(src.t) = "struct" -> mapStructs_p3(src, fl, dest, dro)
           [] Kind(src.t) = "slice"  -> mapSlices_p3(src, fl, dest, dro)
           [] Kind(src.t) = "map"    -> mapMaps_p3(src, fl, dest, dro)
           [] Kind(src.t) = "ptr"    -> mapPointers_p3(src, fl, dest, dro)
           [] OTHER -> IF fl.ro \/ dro THEN PanicV ELSE src

\* the element type and the isArray flag as Map of part_003 computes them:
\* one Elem() also for a pointer to a slice
elementType_p3(T) ==
    IF Kind(T) = "slice" \/ (Kind(T) = "ptr" /\ Kind(Elem(T)) = "slice")
      THEN <<Elem(T), TRUE>>
      ELSE <<T, FALSE>>

MapResult_p3(TSrc, TDes, src) ==
    LET des == Zero(TDes)
        se == elementType_p3(TSrc)
        de == elementType_p3(TDes)
        k == mappingsEntry(se[1], de[1])
    IN  IF k \notin DOMAIN maps THEN [err |-> ErrMapNotExist, val |-> Zero(TDes), pv |-> FALSE]
        ELSE IF maps[k] = NilEntry THEN [err |-> NoErr, val |-> des, pv |-> FALSE]
        ELSE IF ~(de[2] /\ se[2]) THEN customCall(maps[k], TDes, src)
        ELSE LET des1 == mapArray(maps[k], src, des)
                 r == IF des1 = PanicV THEN PanicV
                      ELSE processValues_p3(src, TopFlags, des1, FALSE)
             IN  IF r = PanicV THEN [err |-> Panic, val |-> NoValue, pv |-> des1 # PanicV]
                 ELSE [err |-> NoErr, val |-> r, pv |-> TRUE]

(***************************************************************************)
(* Package typemapper: the type catalog.                                   *)
(***************************************************************************)
\* the nil reflect.Type
NilType == <<>>

\* reflect.Type.PkgPath(): the import path of a named type, "" for an
\* unnamed (pointer) or predeclared type; PkgName is its last element
PkgPath(T) ==
    IF T = <<"Test">> THEN <<"g","o","-","a","p","p","/","t","y","p","e","m","a","p","p","e","r">>
    ELSE <<>>
PkgName(T) ==
    IF T = <<"Test">> THEN <<"t","y","p","e","m","a","p","p","e","r">> ELSE <<>>

\* reflect.Type.String()
RECURSIVE TypeString(_)
TypeString(T) ==
    IF Kind(T) = "ptr" THEN <<"*">> \o TypeString(Elem(T))
    ELSE IF PkgName(T) = <<>> THEN TypeName(T)
    ELSE PkgName(T) \o <<".">> \o TypeName(T)

\* registerType (the body of the loop of discoverTypes) on the catalog c
registerType(c, ptrType, elemType) ==
    LET pkgPath == PkgPath(elemType)
        ptrPkgPath == PkgPath(ptrType)
        p1 == IF pkgPath \in DOMAIN c.packages THEN c.packages
              ELSE Put(c.packages, pkgPath, <<>>)
        p2 == IF ptrPkgPath \in DOMAIN p1 THEN p1 ELSE Put(p1, ptrPkgPath, <<>>)
        p3 == Put(p2, pkgPath, Put(p2[pkgPath], TypeName(elemType), elemType))
        p4 == Put(p3, ptrPkgPath, Put(p3[ptrPkgPath], TypeName(ptrType), ptrType))
    IN  [types |-> Put(Put(c.types, TypeString(elemType), elemType),
                       TypeString(ptrType), ptrType),
         packages |-> p4]

\* init and discoverTypes: the catalog of the struct types S whose pointer
\* type is among the type links of the binary
RECURSIVE discoverTypes(_)
discoverTypes(S) ==
    IF S = {} THEN [types |-> <<>>, packages |-> <<>>]
    ELSE LET T == CHOOSE x \in S : TRUE
         IN  registerType(discoverTypes(S \ {T}), PointerTo(T), T)

TypeByName(typeName) ==
    IF typeName \in DOMAIN types THEN types[typeName] ELSE NilType

TypeByPackageName(pkgPath, name) ==
    IF pkgPath \in DOMAIN packages
      THEN IF name \in DOMAIN packages[pkgPath] THEN packages[pkgPath][name] ELSE NilType
      ELSE NilType

\* getInstanceFromType with the zero value of the type itself for a
\* pointer type
getInstanceFromType_zeroOfPointer(typ) ==
    IF typ = NilType THEN NoValue
    ELSE Zero(typ)

\* getInstanceFromType: the interface value returned; the nil interface is
\* the invalid Value
getInstanceFromType(typ) ==
    IF typ = NilType THEN NoValue
    ELSE IF Kind(typ) = "ptr" THEN mkPtr(typ, "reflect.New", Zero(Elem(typ)))
    ELSE Zero(typ)

InstanceByTypeName(name) == getInstanceFromType(TypeByName(name))

InstanceByPackageName(pkgPath, name) == getInstanceFromType(TypeByPackageName(pkgPath, name))

\* InstancePointerByTypeName: typ.Kind() on the nil reflect.Type is a nil
\* pointer dereference
InstancePointerByTypeName(name) ==
    LET typ == TypeByName(name)
    IN  IF typ = NilType THEN PanicV
        ELSE IF Kind(typ) = "ptr" THEN mkPtr(typ, "reflect.New", Zero(Elem(typ)))
        ELSE mkPtr(PointerTo(typ), "reflect.New", Zero(typ))

\* GenericInstanceByTypeName[T]: instance.(T) panics unless the instance
\* is a T
GenericInstanceByTypeName(T, typeName) ==
    LET instance == InstanceByTypeName(typeName)
    IN  IF instance = NoValue THEN Zero(T)
        ELSE IF instance.t # T THEN PanicV
        ELSE instance

\* the types and names of the calls on the catalog
CatalogTypes == {<<"Test">>, PointerTo(<<"Test">>), <<"int">>}
CatalogNames == {TypeString(T) : T \in CatalogTypes} \cup {<<"n","o","n","e","x","i","s","t","e","n","t">>}

(***************************************************************************)
(* Inputs of the model.                                                    *)
(***************************************************************************)
\* Source{Name: x, Age: a}
SourceOf(x, a) ==
    mkStruct(<<"Source">>, [n \in FieldNames(<<"Source">>) |->
                          IF n = <<"N","a","m","e">> THEN mkString(x) ELSE mkInt(a)])

\* the sources handed to Map: Source{} and Source{Name: "Test", Age: 1}
SourceValues == {SourceOf("", 0), SourceOf("Test", 1)}

\* type arguments <<TSrc, TDst>> of the registration calls: the pair of
\* struct types in value form and in pointer form, and pairs in which a
\* type is neither a struct nor a pointer to a struct
RegTypeArgs == { <<<<"Source">>, <<"Destination">>>>,
                 <<PointerTo(<<"Source">>), PointerTo(<<"Destination">>)>>,
                 <<<<"int">>, <<"Destination">>>>,
                 <<<<"Source">>, PointerTo(<<"int">>)>>,
                 <<<<"int">>, PointerTo(<<"int">>)>> }

\* type arguments of the registration calls that build the profiles with
\* alias tags
ProfileTypeArgs == { <<<<"Source">>, <<"Destination">>>>,
                     <<<<"Tagged">>, <<"TaggedDest">>>>,
                     <<<<"Tagged">>, <<"string">>>> }

\* Map[TSrc, TDes](src): the type arguments with the sources of type TSrc
MapTypeArgs ==
    {<<"Source">>, SliceOf(<<"Source">>)} \X {<<"Destination">>, SliceOf(<<"Destination">>)}
ValuesOf(T) ==
    IF T = <<"Source">> THEN SourceValues
    ELSE {mkNil(SliceOf(<<"Source">>))}
           \cup UNION {{mkSlice(SliceOf(<<"Source">>), e) : e \in [1..n -> SourceValues]} :
                          n \in 0..MaxLen}

\* the value transfer on its own: <<src, des>> of the call
\* processValues(reflect.ValueOf(src), reflect.ValueOf(&des).Elem()), with
\* des the zero value of its type.  Pointers to int and to the struct types.
TransferArgs ==
    {<<p, Zero(IF p.t = PointerTo(<<"int">>) THEN PointerTo(<<"int">>) ELSE PointerTo(<<"Destination">>))>> :
        p \in { mkNil(PointerTo(<<"int">>)),
                mkPtr(PointerTo(<<"int">>), "caller", mkInt(1)),
                mkNil(PointerTo(<<"Source">>)),
                mkPtr(PointerTo(<<"Source">>), "caller", SourceOf("Test", 1)) }}

(***************************************************************************)
(* State and operations.                                                   *)
(***************************************************************************)

Goroutines == 1..NumGoroutines

\* a goroutine: where it stands in its call (pc), the call (op, src), the
\* registry entry it has read (fn), what the call returned (err, val), and
\* two history flags: clean = no write to the package state since the call
\* began, fresh = the registry was empty when the call began
IdleG == [pc |-> "idle", op |-> "", src |-> NoValue, fn |-> NilEntry,
          err |-> NoErr, val |-> NoValue, clean |-> TRUE, fresh |-> FALSE]

Call(op, TSrc, TDst, fn, src, err, val, pv) ==
    [op |-> op, TSrc |-> TSrc, TDst |-> TDst, fn |-> fn, src |-> src,
     err |-> err, val |-> val, pv |-> pv]

Init ==
    /\ build \in {"part_002", "part_003"}
    /\ maps = <<>>
    /\ profiles = <<>>
    /\ mapperConfig = [MapUnexportedFields |-> FALSE]
    /\ ret = Call("init", <<>>, <<>>, NilFn, NoValue, NoErr, NoValue, FALSE)
    /\ created = {}
    /\ gor = [g \in Goroutines |-> IdleG]
    /\ walk = [pc |-> "idle", heap |-> <<>>, stack |-> <<>>, err |-> NoErr]
    /\ types = <<>>
    /\ packages = <<>>

\* a panic ends the process
Running == ret.err # Panic

Configure(config) ==
    /\ Running
    /\ mapperConfig' = config
    /\ ret' = Call("Configure", <<>>, <<>>, NilFn, NoValue, NoErr, NoValue, FALSE)
    /\ UNCHANGED <<types, packages, walk, gor, build, maps, profiles, created>>

\* the check for existing mappings that looks at the value key only
mapExists_valueKeyOnly(pointerStructTypeKey, nonePointerStructTypeKey) ==
    nonePointerStructTypeKey \in DOMAIN maps

\* "Check for existing mappings" in CreateMap of part_002
mapExists(pointerStructTypeKey, nonePointerStructTypeKey) ==
    pointerStructTypeKey \in DOMAIN maps \/ nonePointerStructTypeKey \in DOMAIN maps

\* CreateMap of part_002
CreateMap(TSrc, TDst) ==
    /\ Running
    /\ build = "part_002"
    /\ LET srcType == TSrc
           desType == TDst
           pointerStructTypeKey == mappingsEntry(PointerTo(srcType), PointerTo(desType))
           nonePointerStructTypeKey == mappingsEntry(srcType, desType)
           done(err) == ret' = Call("CreateMap", TSrc, TDst, NilFn, NoValue, err, NoValue, FALSE)
       IN  IF ~isStructOrPointerToStruct(srcType) \/ ~isStructOrPointerToStruct(desType)
             THEN done(ErrUnsupportedMap) /\ UNCHANGED <<maps, profiles, created>>
           ELSE IF mapExists(pointerStructTypeKey, nonePointerStructTypeKey)
             THEN done(ErrMapAlreadyExists) /\ UNCHANGED <<maps, profiles, created>>
           ELSE \E order \in RangeOrders(getBaseType(srcType)) :
                  LET c == configProfile(getBaseType(srcType), getBaseType(desType),
                                         order, profiles)
                  IN  /\ maps' = Put(Put(maps, pointerStructTypeKey, NilEntry),
                                     nonePointerStructTypeKey, NilEntry)
                      /\ profiles' = c[2]
                      /\ done(c[1])
                      /\ created' = IF c[1] = NoErr THEN created \cup {<<TSrc, TDst>>}
                                                    ELSE created
    /\ UNCHANGED <<types, packages, walk, gor, build, mapperConfig>>

\* CreateMap of part_003
CreateMap_p3(TSrc, TDst) ==
    /\ Running
    /\ build = "part_003"
    /\ LET srcType == TSrc
           desType == TDst
           srcPtr == Kind(srcType) = "ptr" /\ Kind(Elem(srcType)) = "struct"
           desPtr == Kind(desType) = "ptr" /\ Kind(Elem(desType)) = "struct"
           pointerStructTypeKey == mappingsEntry(srcType, desType)
           nonePointerStructTypeKey ==
               IF srcPtr THEN mappingsEntry(Elem(srcType), Elem(desType))
                         ELSE mappingsEntry(PointerTo(srcType), PointerTo(desType))
           done(err) == ret' = Call("CreateMap", TSrc, TDst, NilFn, NoValue, err, NoValue, FALSE)
       IN  IF (Kind(srcType) # "struct" /\ ~srcPtr) \/ (Kind(desType) # "struct" /\ ~desPtr)
             THEN done(ErrUnsupportedMap) /\ UNCHANGED <<maps, profiles, created>>
           \* desType.Elem() panics when desType is a struct type
           ELSE IF srcPtr /\ Kind(desType) = "struct"
             THEN done(Panic) /\ UNCHANGED <<maps, profiles, created>>
           ELSE IF pointerStructTypeKey \in DOMAIN maps \/ nonePointerStructTypeKey \in DOMAIN maps
             THEN done(ErrMapAlreadyExists) /\ UNCHANGED <<maps, profiles, created>>
           ELSE \E order \in RangeOrders(IF srcPtr THEN Elem(srcType) ELSE srcType) :
                  /\ maps' = Put(Put(maps, pointerStructTypeKey, NilEntry),
                                 nonePointerStructTypeKey, NilEntry)
                  /\ profiles' = configProfile_p3(IF srcPtr THEN Elem(srcType) ELSE srcType,
                                                  IF desPtr THEN Elem(desType) ELSE desType,
                                                  order, profiles)
                  /\ done(NoErr)
                  /\ created' = created \cup {<<TSrc, TDst>>}
    /\ UNCHANGED <<types, packages, walk, gor, build, mapperConfig>>

\* the checks of CreateCustomMap with the type check in front of the nil check
createCustomMapErr_typeFirst(TSrc, TDes, fn) ==
    IF ~isStructOrPointerToStruct(TSrc) \/ ~isStructOrPointerToStruct(TDes)
      THEN ErrUnsupportedMap
    ELSE IF fn = NilFn THEN ErrNilFunction
    ELSE IF mappingsEntry(TSrc, TDes) \in DOMAIN maps THEN ErrMapAlreadyExists
    ELSE NoErr

\* the checks of CreateCustomMap of part_002, in their order
createCustomMapErr(TSrc, TDes, fn) ==
    IF fn = NilFn THEN ErrNilFunction
    ELSE IF ~isStructOrPointerToStruct(TSrc) \/ ~isStructOrPointerToStruct(TDes)
      THEN ErrUnsupportedMap
    ELSE IF mappingsEntry(TSrc, TDes) \in DOMAIN maps THEN ErrMapAlreadyExists
    ELSE NoErr

\* CreateCustomMap of part_002: a successful call stores struct{}{}
CreateCustomMap(TSrc, TDes, fn) ==
    /\ Running
    /\ build = "part_002"
    /\ LET err == createCustomMapErr(TSrc, TDes, fn)
       IN  /\ ret' = Call("CreateCustomMap", TSrc, TDes, fn, NoValue, err, NoValue, FALSE)
           /\ maps' = IF err = NoErr THEN Put(maps, mappingsEntry(TSrc, TDes), "struct{}{}")
                                     ELSE maps
    /\ UNCHANGED <<types, packages, walk, gor, build, profiles, mapperConfig, created>>

\* CreateCustomMap of part_003
CreateCustomMap_p3(TSrc, TDes, fn) ==
    /\ Running
    /\ build = "part_003"
    /\ LET k == mappingsEntry(TSrc, TDes)
           bad(T) == Kind(T) # "struct" /\ (Kind(T) = "ptr" /\ Kind(Elem(T)) # "struct")
           err == IF fn = NilFn THEN ErrNilFunction
                  ELSE IF bad(TSrc) \/ bad(TDes) THEN ErrUnsupportedMap
                  ELSE IF k \in DOMAIN maps THEN ErrMapAlreadyExists
                  ELSE NoErr
       IN  ret' = Call("CreateCustomMap", TSrc, TDes, fn, NoValue, err, NoValue, FALSE)
    /\ UNCHANGED <<types, packages, walk, gor, build, maps, profiles, mapperConfig, created>>

\* the tests of the package store a function in the registry directly:
\* maps[mappingsEntry{Source, Destination}] = func(s Source) Destination {...}
TestSetMapping(fn) ==
    /\ Running
    /\ maps' = Put(maps, mappingsEntry(<<"Source">>, <<"Destination">>), fn)
    /\ ret' = Call("TestSetMapping", <<"Source">>, <<"Destination">>, fn, NoValue, NoErr, NoValue, FALSE)
    /\ UNCHANGED <<types, packages, walk, gor, build, profiles, mapperConfig, created>>

\* Map that registers the pair it did not find
Map_registerOnMiss(TSrc, TDes, src) ==
    /\ Running
    /\ build = "part_002"
    /\ LET r == MapResult(TSrc, TDes, src)
       IN  /\ ret' = Call("Map", TSrc, TDes, NilFn, src, r.err, r.val, r.pv)
           /\ maps' = IF r.err = ErrMapNotExist
                         THEN Put(maps, mappingsEntry(getElementType(TSrc)[1],
                                                      getElementType(TDes)[1]), NilEntry)
                         ELSE maps
    /\ UNCHANGED <<types, packages, walk, gor, build, profiles, mapperConfig, created>>

\* Map of part_002
Map(TSrc, TDes, src) ==
    /\ Running
    /\ build = "part_002"
    /\ LET r == MapResult(TSrc, TDes, src)
       IN  ret' = Call("Map", TSrc, TDes, NilFn, src, r.err, r.val, r.pv)
    /\ UNCHANGED <<types, packages, walk, gor, build, maps, profiles, mapperConfig, created>>

\* Map of part_003
Map_p3(TSrc, TDes, src) ==
    /\ Running
    /\ build = "part_003"
    /\ LET r == MapResult_p3(TSrc, TDes, src)
       IN  ret' = Call("Map", TSrc, TDes, NilFn, src, r.err, r.val, r.pv)
    /\ UNCHANGED <<types, packages, walk, gor, build, maps, profiles, mapperConfig, created>>

\* the value transfer of part_002, as Map starts it
Transfer(src, des) ==
    /\ Running
    /\ build = "part_002"
    /\ LET r == processValues(src, TopFlags, des, FALSE)
       IN  ret' = Call("processValues", src.t, des.t, NilFn, src,
                       IF r = PanicV THEN Panic ELSE NoErr,
                       IF r = PanicV THEN NoValue ELSE r, TRUE)
    /\ UNCHANGED <<types, packages, walk, gor, build, maps, profiles, mapperConfig, created>>

\* the value transfer of part_003, as Map starts it
Transfer_p3(src, des) ==
    /\ Running
    /\ build = "part_003"
    /\ LET r == processValues_p3(src, TopFlags, des, FALSE)
       IN  ret' = Call("processValues", src.t, des.t, NilFn, src,
                       IF r = PanicV THEN Panic ELSE NoErr,
                       IF r = PanicV THEN NoValue ELSE r, TRUE)
    /\ UNCHANGED <<types, packages, walk, gor, build, maps, profiles, mapperConfig, created>>

Next ==
    \/ \E c \in BOOLEAN : Configure([MapUnexportedFields |-> c])
    \/ \E a \in RegTypeArgs : CreateMap(a[1], a[2])
    \/ \E a \in RegTypeArgs : CreateMap_p3(a[1], a[2])
    \/ \E a \in RegTypeArgs, fn \in Fns \cup {NilFn} : CreateCustomMap(a[1], a[2], fn)
    \/ \E a \in RegTypeArgs, fn \in Fns \cup {NilFn} : CreateCustomMap_p3(a[1], a[2], fn)
    \/ \E fn \in Fns : TestSetMapping(fn)
    \/ \E a \in MapTypeArgs : \E v \in ValuesOf(a[1]) : Map(a[1], a[2], v)
    \/ \E a \in MapTypeArgs : \E v \in ValuesOf(a[1]) : Map_p3(a[1], a[2], v)
    \/ \E a \in TransferArgs : Transfer(a[1], a[2])
    \/ \E a \in TransferArgs : Transfer_p3(a[1], a[2])

Spec == Init /\ [][Next]_vars

\* the registration calls on their own, over the types with alias tags
NextProfile ==
    \/ \E a \in ProfileTypeArgs : CreateMap(a[1], a[2])
    \/ \E a \in ProfileTypeArgs : CreateMap_p3(a[1], a[2])

SpecProfile == Init /\ [][NextProfile]_vars

(***************************************************************************)
(* The package over struct types of several shapes: two pairs with the     *)
(* same short type names, a source with methods, a struct field whose pair *)
(* is registered too (in pointer form), and an unexported source field.    *)
(***************************************************************************)
StructTypeArgs ==
    { <<<<"Source">>, <<"Destination">>>>,
      <<<<"OtherSource">>, <<"OtherDestination">>>>,
      <<<<"Person">>, <<"PersonDst">>>>,
      <<PointerTo(<<"Inner">>), PointerTo(<<"InnerDst">>)>>,
      <<<<"Outer">>, <<"OuterDst">>>>,
      <<<<"Account">>, <<"AccountDst">>>> }

\* <<TSrc, TDes, src>> of the calls Map[TSrc, TDes](src): one value of each
\* source type, and one-element slices of Person and Account
StructMapArgs ==
    LET one(T, n, v) == mkStruct(T, [x \in {n} |-> v])
        person  == one(<<"Person">>, <<"F","i","r","s","t">>, mkString("Ann"))
        account == one(<<"Account">>, <<"s","e","c","r","e","t">>, mkString("s3"))
        outer   == one(<<"Outer">>, <<"I","n">>, one(<<"Inner">>, <<"V">>, mkInt(1)))
    IN  { <<<<"Source">>, <<"Destination">>, SourceOf("Test", 1)>>,
          <<<<"Person">>, <<"PersonDst">>, person>>,
          <<SliceOf(<<"Person">>), SliceOf(<<"PersonDst">>),
            mkSlice(SliceOf(<<"Person">>), <<person>>)>>,
          <<<<"Outer">>, <<"OuterDst">>, outer>>,
          <<<<"Account">>, <<"AccountDst">>, account>>,
          <<SliceOf(<<"Account">>), SliceOf(<<"AccountDst">>),
            mkSlice(SliceOf(<<"Account">>), <<account>>)>> }

NextStructs ==
    \/ \E c \in BOOLEAN : Configure([MapUnexportedFields |-> c])
    \/ \E a \in StructTypeArgs : CreateMap(a[1], a[2])
    \/ \E a \in StructTypeArgs : CreateMap_p3(a[1], a[2])
    \/ \E a \in StructMapArgs : Map(a[1], a[2], a[3])
    \/ \E a \in StructMapArgs : Map_p3(a[1], a[2], a[3])

SpecStructs == Init /\ [][NextStructs]_vars

\* <<src, des>> of further calls of the value transfer: a source and a
\* destination of different kinds, the invalid Value on either side, and
\* the maps of type map[string]int with up to two entries
EngineArgs ==
    { <<mkInt(1), Zero(<<"string">>)>>,
      <<SourceOf("Test", 1), Zero(<<"int">>)>>,
      <<NoValue, Zero(<<"int">>)>>,
      <<mkInt(1), NoValue>>,
      <<mkNil(<<"map", "string", "int">>), Zero(<<"map", "string", "int">>)>> }
    \cup { <<mkMap(<<"map", "string", "int">>,
                   [k \in {mkString(x) : x \in S} |-> mkInt(IF k.s = "a" THEN 1 ELSE 2)]),
             Zero(<<"map", "string", "int">>)>> : S \in SUBSET {"a", "b"} }

\* the value transfer on further kinds of values, with the pair
\* (Source, Destination) registered or not
NextEngine ==
    \/ \E c \in BOOLEAN : Configure([MapUnexportedFields |-> c])
    \/ CreateMap(<<"Source">>, <<"Destination">>)
    \/ CreateMap_p3(<<"Source">>, <<"Destination">>)
    \/ \E a \in EngineArgs : Transfer(a[1], a[2])
    \/ \E a \in EngineArgs : Transfer_p3(a[1], a[2])

SpecEngine == Init /\ [][NextEngine]_vars

(***************************************************************************)
(* Concurrent callers.  The package state is three unsynchronized          *)
(* variables (two Go maps and a pointer); a goroutine runs CreateMap or    *)
(* Map one access of the package state at a time.  The calls are           *)
(* CreateMap[Source, Destination]() and Map[Source, Destination](src).     *)
(***************************************************************************)

\* the two registry keys of CreateMap[Source, Destination], in the order in
\* which the running copy writes them
firstKey ==
    IF build = "part_002" THEN mappingsEntry(PointerTo(<<"Source">>), PointerTo(<<"Destination">>))
                          ELSE mappingsEntry(<<"Source">>, <<"Destination">>)
secondKey ==
    IF build = "part_002" THEN mappingsEntry(<<"Source">>, <<"Destination">>)
                          ELSE mappingsEntry(PointerTo(<<"Source">>), PointerTo(<<"Destination">>))

\* gor with goroutine g replaced by r, and every Map call in flight marked
\* not clean when the step wrote package state
Step(g, r, wrote) ==
    [h \in Goroutines |->
        IF h = g THEN r
        ELSE IF wrote /\ gor[h].pc \in {"lookup", "transfer"}
          THEN [gor[h] EXCEPT !.clean = FALSE]
        ELSE gor[h]]

CanStart(g) == gor[g].pc \in {"idle", "done"}

GStartCreateMap(g) ==
    /\ Running
    /\ CanStart(g)
    /\ gor' = Step(g, [IdleG EXCEPT !.pc = "check", !.op = "CreateMap",
                                    !.fresh = (maps = <<>>)], FALSE)
    /\ UNCHANGED <<types, packages, walk, build, maps, profiles, mapperConfig, ret, created>>

\* "Check for existing mappings": the two reads of maps
GCheck(g) ==
    /\ Running
    /\ gor[g].pc = "check"
    /\ gor' = Step(g, IF firstKey \in DOMAIN maps \/ secondKey \in DOMAIN maps
                        THEN [gor[g] EXCEPT !.pc = "done", !.err = ErrMapAlreadyExists]
                        ELSE [gor[g] EXCEPT !.pc = "write1"], FALSE)
    /\ UNCHANGED <<types, packages, walk, build, maps, profiles, mapperConfig, ret, created>>

\* maps[pointerStructTypeKey] = nil
GWrite1(g) ==
    /\ Running
    /\ gor[g].pc = "write1"
    /\ maps' = Put(maps, firstKey, NilEntry)
    /\ gor' = Step(g, [gor[g] EXCEPT !.pc = "write2"], TRUE)
    /\ UNCHANGED <<types, packages, walk, build, profiles, mapperConfig, ret, created>>

\* maps[nonePointerStructTypeKey] = nil
GWrite2(g) ==
    /\ Running
    /\ gor[g].pc = "write2"
    /\ maps' = Put(maps, secondKey, NilEntry)
    /\ gor' = Step(g, [gor[g] EXCEPT !.pc = "profile"], TRUE)
    /\ UNCHANGED <<types, packages, walk, build, profiles, mapperConfig, ret, created>>

\* configProfile and the return of CreateMap
GProfile(g) ==
    /\ Running
    /\ gor[g].pc = "profile"
    /\ \E order \in RangeOrders(<<"Source">>) :
         LET c == IF build = "part_002"
                    THEN configProfile(<<"Source">>, <<"Destination">>, order, profiles)
                    ELSE <<NoErr, configProfile_p3(<<"Source">>, <<"Destination">>, order, profiles)>>
         IN  /\ profiles' = c[2]
             /\ gor' = Step(g, [gor[g] EXCEPT !.pc = "done", !.err = c[1]], TRUE)
    /\ UNCHANGED <<types, packages, walk, build, maps, mapperConfig, ret, created>>

GStartMap(g, src) ==
    /\ Running
    /\ CanStart(g)
    /\ gor' = Step(g, [IdleG EXCEPT !.pc = "lookup", !.op = "Map", !.src = src], FALSE)
    /\ UNCHANGED <<types, packages, walk, build, maps, profiles, mapperConfig, ret, created>>

\* Map with the lookup storing the nil entry under a key it misses
GMapLookup_storeOnMiss(g) ==
    /\ Running
    /\ gor[g].pc = "lookup"
    /\ LET k == mappingsEntry(<<"Source">>, <<"Destination">>)
       IN  /\ maps' = IF k \in DOMAIN maps THEN maps ELSE Put(maps, k, NilEntry)
           /\ gor' = Step(g, [gor[g] EXCEPT !.pc = "transfer",
                                            !.fn = IF k \in DOMAIN maps THEN maps[k]
                                                                        ELSE NilEntry], FALSE)
    /\ UNCHANGED <<types, packages, walk, build, profiles, mapperConfig, ret, created>>

\* Map up to the value transfer: the read of maps, and the return when the
\* key is missing, when the entry is a function (the sources are no
\* sequences), or, in part_003, when the entry is nil
GMapLookup(g) ==
    /\ Running
    /\ gor[g].pc = "lookup"
    /\ LET k == mappingsEntry(<<"Source">>, <<"Destination">>)
           return(err, val) == [gor[g] EXCEPT !.pc = "done", !.err = err, !.val = val]
       IN  gor' = Step(g,
                 IF k \notin DOMAIN maps THEN return(ErrMapNotExist, Zero(<<"Destination">>))
                 ELSE IF maps[k] # NilEntry
                   THEN LET c == customCall(maps[k], <<"Destination">>, gor[g].src)
                        IN  return(c.err, c.val)
                 ELSE IF build = "part_003" THEN return(NoErr, Zero(<<"Destination">>))
                 ELSE [gor[g] EXCEPT !.pc = "transfer", !.fn = maps[k]], FALSE)
    /\ UNCHANGED <<types, packages, walk, build, maps, profiles, mapperConfig, ret, created>>

\* processValues and the return of Map (part_002): reads profiles and
\* mapperConfig
GMapTransfer(g) ==
    /\ Running
    /\ gor[g].pc = "transfer"
    /\ LET r == processValues(gor[g].src, TopFlags, Zero(<<"Destination">>), FALSE)
       IN  gor' = Step(g, [gor[g] EXCEPT !.pc = "done",
                                        !.err = IF r = PanicV THEN Panic ELSE NoErr,
                                        !.val = IF r = PanicV THEN NoValue ELSE r], FALSE)
    /\ UNCHANGED <<types, packages, walk, build, maps, profiles, mapperConfig, ret, created>>

\* two goroutines stand at accesses of the same Go map and one of the
\* accesses is a write: a data race
Race ==
    \E g, h \in Goroutines :
        /\ g # h
        /\ \/ gor[g].pc \in {"write1", "write2"}
                 /\ gor[h].pc \in {"check", "lookup", "write1", "write2"}
           \/ gor[g].pc = "profile" /\ gor[h].pc \in {"transfer", "profile"}

\* the Go runtime may detect the race and end the process
\* ("fatal error: concurrent map writes" / "concurrent map read and map write")
GFatal ==
    /\ Running
    /\ Race
    /\ ret' = Call("fatal error", <<>>, <<>>, NilFn, NoValue, Panic, NoValue, FALSE)
    /\ UNCHANGED <<types, packages, walk, build, maps, profiles, mapperConfig, created, gor>>

NextConc ==
    \/ \E g \in Goroutines : GStartCreateMap(g)
    \/ \E g \in Goroutines : GCheck(g)
    \/ \E g \in Goroutines : GWrite1(g)
    \/ \E g \in Goroutines : GWrite2(g)
    \/ \E g \in Goroutines : GProfile(g)
    \/ \E g \in Goroutines, src \in {SourceOf("Test", 1)} : GStartMap(g, src)
    \/ \E g \in Goroutines : GMapLookup(g)
    \/ \E g \in Goroutines : GMapTransfer(g)
    \/ GFatal

SpecConc == Init /\ [][NextConc]_vars

(***************************************************************************)
(* Map of a linked source.  The source is a Node whose Next pointers lead  *)
(* through a heap of Node values: heap[n] is the Next of node n, 0 for the *)
(* nil pointer.  The recursion of processValues is followed call by call:  *)
(* stack lists the nodes whose mapStructs is active, innermost last.       *)
(***************************************************************************)
Nodes == 1..NumNodes
NilNode == 0

\* the profile of (Node, NodeDst) has the correspondence (Next, Next)
FollowsNext ==
    /\ getProfileKey(<<"Node">>, <<"NodeDst">>) \in DOMAIN profiles
    /\ \E k \in 1..Len(profiles[getProfileKey(<<"Node">>, <<"NodeDst">>)]) :
          profiles[getProfileKey(<<"Node">>, <<"NodeDst">>)][k] = <<<<"N","e","x","t">>, <<"N","e","x","t">>>>

\* Map[Node, NodeDst](src), src the Node n of the heap h, up to the first
\* call of processValues
WalkStart(h, n) ==
    /\ Running
    /\ walk.pc \in {"idle", "done"}
    /\ LET k == mappingsEntry(<<"Node">>, <<"NodeDst">>)
       IN  walk' = IF k \notin DOMAIN maps
                     THEN [pc |-> "done", heap |-> h, stack |-> <<>>, err |-> ErrMapNotExist]
                   \* part_003 returns the zero value for the nil entry
                   ELSE IF build = "part_003" \/ maps[k] # NilEntry
                     THEN [pc |-> "done", heap |-> h, stack |-> <<>>, err |-> NoErr]
                   ELSE [pc |-> "running", heap |-> h, stack |-> <<n>>, err |-> NoErr]
    /\ UNCHANGED <<types, packages, build, maps, profiles, mapperConfig, ret, created, gor>>

\* mapStructs of the innermost node reaches a non-nil Next: mapPointers
\* allocates the destination and calls processValues on the target
WalkDescend ==
    /\ Running
    /\ walk.pc = "running"
    /\ FollowsNext
    /\ walk.heap[walk.stack[Len(walk.stack)]] # NilNode
    /\ Len(walk.stack) < MaxDepth
    /\ walk' = [walk EXCEPT !.stack = Append(@, walk.heap[walk.stack[Len(walk.stack)]])]
    /\ UNCHANGED <<types, packages, build, maps, profiles, mapperConfig, ret, created, gor>>

\* mapStructs of the innermost node finds no correspondence or a nil Next:
\* it returns, and so does every caller, whose loop has no other field
WalkReturn ==
    /\ Running
    /\ walk.pc = "running"
    /\ ~FollowsNext \/ walk.heap[walk.stack[Len(walk.stack)]] = NilNode
    /\ walk' = [walk EXCEPT !.pc = "done", !.stack = <<>>]
    /\ UNCHANGED <<types, packages, build, maps, profiles, mapperConfig, ret, created, gor>>

NodeTypeArgs == {<<<<"Node">>, <<"NodeDst">>>>}

NextCycle ==
    \/ \E a \in NodeTypeArgs : CreateMap(a[1], a[2])
    \/ \E a \in NodeTypeArgs : CreateMap_p3(a[1], a[2])
    \/ \E h \in [Nodes -> Nodes \cup {NilNode}], n \in Nodes : WalkStart(h, n)
    \/ WalkDescend
    \/ WalkReturn

SpecCycle == Init /\ [][NextCycle]_vars

(***************************************************************************)
(* The calls of package typemapper.                                        *)
(***************************************************************************)
\* what a call leaves in ret: its arguments and the interface value v it
\* returned; err is Panic when it did not return
CatCall(op, pkg, name, T, v) ==
    [op |-> op, pkg |-> pkg, name |-> name, T |-> T,
     err |-> IF v = PanicV THEN Panic ELSE NoErr,
     val |-> IF v = PanicV THEN NoValue ELSE v]

\* the tests store a type in the index by hand: types[name] = reflect.TypeOf(x)
TestSetType(T) ==
    /\ Running
    /\ types' = Put(types, TypeString(T), T)
    /\ ret' = CatCall("TestSetType", <<>>, TypeString(T), T, NoValue)
    /\ UNCHANGED <<packages, build, maps, profiles, mapperConfig, created, gor, walk>>

\* packages["typemapper"] = map[string]reflect.Type{"Test": reflect.TypeOf(Test{})}
TestSetPackage ==
    /\ Running
    /\ packages' = Put(packages, PkgName(<<"Test">>), Put(<<>>, TypeName(<<"Test">>), <<"Test">>))
    /\ ret' = CatCall("TestSetPackage", PkgName(<<"Test">>), TypeName(<<"Test">>), <<"Test">>, NoValue)
    /\ UNCHANGED <<types, build, maps, profiles, mapperConfig, created, gor, walk>>

\* init of package typemapper: discoverTypes fills the indices from the
\* type links of the binary (none in the copy whose typelinks2 is a stub)
InitTypemapper(discovered) ==
    /\ ret.op = "init"
    /\ LET c == discoverTypes(discovered)
       IN  types' = c.types /\ packages' = c.packages
    /\ ret' = CatCall("discoverTypes", <<>>, <<>>, NilType, NoValue)
    /\ UNCHANGED <<build, maps, profiles, mapperConfig, created, gor, walk>>

InstanceByTypeNameCall(name) ==
    /\ Running
    /\ ret' = CatCall("InstanceByTypeName", <<>>, name, NilType, InstanceByTypeName(name))
    /\ UNCHANGED <<types, packages, build, maps, profiles, mapperConfig, created, gor, walk>>

InstancePointerByTypeNameCall(name) ==
    /\ Running
    /\ ret' = CatCall("InstancePointerByTypeName", <<>>, name, NilType,
                        InstancePointerByTypeName(name))
    /\ UNCHANGED <<types, packages, build, maps, profiles, mapperConfig, created, gor, walk>>

InstanceByPackageNameCall(pkgPath, name) ==
    /\ Running
    /\ ret' = CatCall("InstanceByPackageName", pkgPath, name, NilType,
                        InstanceByPackageName(pkgPath, name))
    /\ UNCHANGED <<types, packages, build, maps, profiles, mapperConfig, created, gor, walk>>

GenericInstanceByTypeNameCall(T, typeName) ==
    /\ Running
    /\ ret' = CatCall("GenericInstanceByTypeName", <<>>, typeName, T,
                        GenericInstanceByTypeName(T, typeName))
    /\ UNCHANGED <<types, packages, build, maps, profiles, mapperConfig, created, gor, walk>>

NextCatalog ==
    \/ \E discovered \in SUBSET {<<"Test">>} : InitTypemapper(discovered)
    \/ \E T \in CatalogTypes : TestSetType(T)
    \/ TestSetPackage
    \/ \E name \in CatalogNames : InstanceByTypeNameCall(name)
    \/ \E name \in CatalogNames : InstancePointerByTypeNameCall(name)
    \/ \E pkgPath \in {PkgPath(<<"Test">>), PkgName(<<"Test">>), <<>>, <<"n","o","n","e","x","i","s","t","e","n","t">>},
          name \in {TypeName(<<"Test">>), <<>>, <<"n","o","n","e","x","i","s","t","e","n","t">>} :
          InstanceByPackageNameCall(pkgPath, name)
    \/ \E T \in CatalogTypes, name \in CatalogNames : GenericInstanceByTypeNameCall(T, name)

SpecCatalog == Init /\ [][NextCatalog]_vars

(***************************************************************************)
(* Package pagination: NewListQueryFromQueryParams.                        *)
(*                                                                         *)
(* A Go int has 64 bits.  It is kept as a sign and a magnitude, the        *)
(* magnitude being the sequence of its decimal digits without leading      *)
(* zeros, so that the values at the edge of the range are the values of    *)
(* the program.  A query string is a sequence of one-character strings.    *)
(***************************************************************************)
DigitChars == <<"0", "1", "2", "3", "4", "5", "6", "7", "8", "9">>

\* the decimal text of a sequence of digits
Chars(ds) == [k \in 1..Len(ds) |-> DigitChars[ds[k] + 1]]

RECURSIVE StripZeros(_)
StripZeros(ds) ==
    IF ds = <<>> THEN <<>>
    ELSE IF ds[1] = 0 THEN StripZeros(Tail(ds))
    ELSE ds

IntZero == [neg |-> FALSE, mag |-> <<>>]

\* math.MaxInt64 = 1<<63 - 1 and math.MinInt64 = -1<<63
MaxInt64 == [neg |-> FALSE, mag |-> <<9,2,2,3,3,7,2,0,3,6,8,5,4,7,7,5,8,0,7>>]

MinInt64 == [neg |-> TRUE, mag |-> <<9,2,2,3,3,7,2,0,3,6,8,5,4,7,7,5,8,0,8>>]

\* a < b for magnitudes without leading zeros: the shorter one, or of two of
\* the same length the one with the smaller digit where they first differ
MagLess(a, b) ==
    \/ Len(a) < Len(b)
    \/ /\ Len(a) = Len(b)
       /\ \E k \in 1..Len(a) : a[k] < b[k] /\ \A j \in 1..(k - 1) : a[j] = b[j]

\* strconv.Atoi(s): an optional sign and then decimal digits, at least one;
\* anything else is a syntax error and gives 0; a value outside of the range
\* of int is a range error and gives the nearest value of the range
Atoi(s) ==
    LET signed == s # <<>> /\ s[1] \in {"+", "-"}
        neg    == s # <<>> /\ s[1] = "-"
        body   == IF signed THEN Tail(s) ELSE s
        digit(c) == {d \in 0..9 : DigitChars[d + 1] = c}
    IN  IF body = <<>> \/ \E k \in 1..Len(body) : digit(body[k]) = {}
        THEN [n |-> IntZero, err |-> "strconv.ErrSyntax"]
        ELSE LET mag == StripZeros([k \in 1..Len(body) |-> CHOOSE d \in digit(body[k]) : TRUE])
             IN  IF ~neg /\ MagLess(MaxInt64.mag, mag)
                 THEN [n |-> MaxInt64, err |-> "strconv.ErrRange"]
                 ELSE IF neg /\ MagLess(MinInt64.mag, mag)
                 THEN [n |-> MinInt64, err |-> "strconv.ErrRange"]
                 ELSE [n |-> [neg |-> neg /\ mag # <<>>, mag |-> mag], err |-> NoErr]

\* defaultSize = 10, defaultPage = 1
defaultSize == [neg |-> FALSE, mag |-> <<1, 0>>]
defaultPage == [neg |-> FALSE, mag |-> <<1>>]

\* p := &ListQuery{Size: defaultSize, Page: defaultPage}; both branches are
\* taken when Atoi returned an error together with a non-zero number, and
\* both assign to p.Size
NewListQueryFromQueryParams(size, page) ==
    LET sz == Atoi(size)
        pg == Atoi(page)
        p0 == [Size |-> defaultSize, Page |-> defaultPage]
        p1 == IF sz.err # NoErr /\ sz.n # IntZero THEN [p0 EXCEPT !.Size = sz.n] ELSE p0
        p2 == IF pg.err # NoErr /\ pg.n # IntZero THEN [p1 EXCEPT !.Size = pg.n] ELSE p1
    IN  p2

\* the query parameters a request can carry
QueryStrings ==
    { <<>>,
      <<"a", "b", "c">>,
      <<"x", "y", "z">>,
      <<"0">>,
      <<"-", "0">>,
      <<"-">>,
      <<"2">>,
      <<"2", "0">>,
      <<"0", "0", "7">>,
      <<"+", "7">>,
      <<"-", "5">>,
      <<"1", "e", "3">>,
      Chars(MaxInt64.mag),
      Chars(MinInt64.mag),
      <<"-">> \o Chars(MinInt64.mag),
      <<"-">> \o Chars(MaxInt64.mag) \o <<"0">> }

NewListQueryFromQueryParamsCall(size, page) ==
    /\ Running
    /\ ret' = [op |-> "NewListQueryFromQueryParams", size |-> size, page |-> page,
               err |-> NoErr, val |-> NewListQueryFromQueryParams(size, page)]
    /\ UNCHANGED <<types, packages, build, maps, profiles, mapperConfig, created, gor, walk>>

NextPagination ==
    \E size \in QueryStrings, page \in QueryStrings : NewListQueryFromQueryParamsCall(size, page)

SpecPagination == Init /\ [][NextPagination]_vars

(***************************************************************************)
(* Properties.                                                             *)
(***************************************************************************)
\* the pair of struct types in its value form and in its pointer form
ValueForm   == <<<<"Source">>, <<"Destination">>>>
PointerForm == <<PointerTo(<<"Source">>), PointerTo(<<"Destination">>)>>
StructPairForms == {ValueForm, PointerForm}

StructShaped(T) == Kind(T) = "struct" \/ (Kind(T) = "ptr" /\ Kind(Elem(T)) = "struct")

\* the registry entry of the pair is the one CreateMap leaves (Generated)
Generated(k) == k \in DOMAIN maps /\ maps[k] = NilEntry

\* what the functions of the tests return for the source s
ExpectedOfFn(fn, s) ==
    mkStruct(<<"Destination">>,
             [n \in {<<"N","a","m","e">>, <<"A","g","e">>} |-> IF n = <<"N","a","m","e">> /\ fn = fnCopyName THEN s.f[<<"N","a","m","e">>]
                                      ELSE IF n = <<"N","a","m","e">> THEN mkString("") ELSE mkInt(0)])

\* the fields of the same name and type in Source and Destination
CommonFields ==
    {n \in FieldNames(<<"Source">>) \cap FieldNames(<<"Destination">>) :
        FieldType(<<"Source">>, n) = FieldType(<<"Destination">>, n)}

\* C1: once CreateMap has succeeded for the pair of struct types, a CreateMap
\* for the pair in value form or in pointer form returns ErrMapAlreadyExists
\* and changes neither the registry nor the profile cache.
C1_SecondCreateMapRejected ==
    [][ ( /\ created \cap StructPairForms # {}
          /\ ret'.op = "CreateMap"
          /\ <<ret'.TSrc, ret'.TDst>> \in StructPairForms )
        => ( /\ ret'.err = ErrMapAlreadyExists
             /\ maps' = maps
             /\ profiles' = profiles ) ]_vars

\* C1 witness: a CreateMap in the form that the successful call did not use
\* was rejected.
C1_Witness ==
    /\ ret.op = "CreateMap"
    /\ ret.err = ErrMapAlreadyExists
    /\ <<ret.TSrc, ret.TDst>> \in StructPairForms
    /\ created # {}
    /\ <<ret.TSrc, ret.TDst>> \notin created

\* C2: a CreateMap, or a CreateCustomMap with a function, in which a type is
\* neither a struct nor a pointer to a struct returns ErrUnsupportedMap and
\* adds nothing to the registry or the profile cache.
C2_UnsupportedRejected ==
    [][ ( /\ ret'.op = "CreateMap" \/ (ret'.op = "CreateCustomMap" /\ ret'.fn # NilFn)
          /\ ~StructShaped(ret'.TSrc) \/ ~StructShaped(ret'.TDst) )
        => ( /\ ret'.err = ErrUnsupportedMap
             /\ maps' = maps
             /\ profiles' = profiles ) ]_vars

\* C3: after a successful CreateMap for the pair, given in value form or in
\* pointer form, the registry has the entry keyed (S, D) and the entry keyed
\* (*S, *D).
C3_BothFormsRegistered ==
    ( /\ ret.op = "CreateMap"
      /\ ret.err = NoErr
      /\ <<ret.TSrc, ret.TDst>> \in StructPairForms )
    => StructPairForms \subseteq DOMAIN maps

\* C4: for the registered Generated pair (Source, Destination), Map of a
\* Source returns no error and a Destination whose fields of the same name
\* and type equal those of the source.
C4_MapCopiesFields ==
    ( /\ ret.op = "Map"
      /\ ret.TSrc = <<"Source">>
      /\ ret.TDst = <<"Destination">>
      /\ Generated(ValueForm) )
    => ( /\ ret.err = NoErr
         /\ ret.val.t = <<"Destination">>
         /\ \A n \in CommonFields : ret.val.f[n] = ret.src.f[n] )

\* C5: Map for a pair without registry entry returns ErrMapNotExist and the
\* zero value of the destination type.
C5_UnregisteredMap ==
    ( /\ ret.op = "Map"
      /\ mappingsEntry(IF Kind(ret.TSrc) = "slice" THEN Elem(ret.TSrc) ELSE ret.TSrc,
                       IF Kind(ret.TDst) = "slice" THEN Elem(ret.TDst) ELSE ret.TDst)
           \notin DOMAIN maps )
    => ( /\ ret.err = ErrMapNotExist
         /\ ret.val = Zero(ret.TDst) )

\* C5 witness: Map of a source that is not the zero value was refused.
C5_Witness ==
    /\ ret.op = "Map"
    /\ ret.err = ErrMapNotExist
    /\ ret.src # Zero(ret.TSrc)
    /\ ret.src.nil = FALSE
    /\ ret.val = Zero(ret.TDst)

\* C6: after CreateCustomMap(fn) has returned nil for (Source, Destination)
\* the registry entry of the pair holds fn, and the Map of a Source that
\* follows returns fn(s) and no error.
C6_CustomMapHoldsFn ==
    [][ /\ ( /\ ret'.op = "CreateCustomMap"
             /\ ret'.err = NoErr
             /\ <<ret'.TSrc, ret'.TDst>> = ValueForm )
           => ( /\ ValueForm \in DOMAIN maps'
                /\ maps'[ValueForm] = ret'.fn )
        /\ ( /\ ret.op = "CreateCustomMap"
             /\ ret.err = NoErr
             /\ <<ret.TSrc, ret.TDst>> = ValueForm
             /\ ret'.op = "Map"
             /\ ret'.TSrc = <<"Source">>
             /\ ret'.TDst = <<"Destination">> )
           => ( /\ ret'.err = NoErr
                /\ ret'.val = ExpectedOfFn(ret.fn, ret'.src) ) ]_vars

\* C7: when the registry entry of (Source, Destination) holds a function fn,
\* Map of a Source s returns fn(s) and a nil error, and processValues does
\* not run.
C7_CustomEntryReturnsFn ==
    ( /\ ret.op = "Map"
      /\ ret.TSrc = <<"Source">>
      /\ ret.TDst = <<"Destination">>
      /\ ValueForm \in DOMAIN maps
      /\ maps[ValueForm] \in Fns )
    => ( /\ ret.err = NoErr
         /\ ret.val = ExpectedOfFn(maps[ValueForm], ret.src)
         /\ ~ret.pv )

\* C7 witness: Map returned fn(s) for a source with a non-zero Age while the
\* profile of the pair is cached, so the generated path would have copied Age.
C7_Witness ==
    /\ ret.op = "Map"
    /\ ret.TSrc = <<"Source">>
    /\ ret.TDst = <<"Destination">>
    /\ ValueForm \in DOMAIN maps
    /\ maps[ValueForm] = fnCopyName
    /\ getProfileKey(<<"Source">>, <<"Destination">>) \in DOMAIN profiles
    /\ ret.src.f[<<"A","g","e">>].i > 0
    /\ ret.err = NoErr
    /\ ret.val.f[<<"N","a","m","e">>] = ret.src.f[<<"N","a","m","e">>]
    /\ ret.val.f[<<"A","g","e">>].i = 0

\* C8: CreateCustomMap with a function, for a pair that is registered by an
\* earlier CreateMap or by an earlier successful CreateCustomMap, returns
\* ErrMapAlreadyExists and leaves the registry unchanged.
C8_CustomMapOnRegisteredRejected ==
    [][ ( /\ ret'.op = "CreateCustomMap"
          /\ ret'.fn # NilFn
          /\ \/ <<ret'.TSrc, ret'.TDst>> \in DOMAIN maps
             \/ ( /\ ret.op = "CreateCustomMap"
                  /\ ret.err = NoErr
                  /\ <<ret.TSrc, ret.TDst>> = <<ret'.TSrc, ret'.TDst>> ) )
        => ( /\ ret'.err = ErrMapAlreadyExists
             /\ maps' = maps ) ]_vars

\* C9: CreateCustomMap with a nil function returns ErrNilFunction for every
\* pair of type arguments and leaves the registry unchanged.
C9_NilFunctionRejected ==
    [][ ( /\ ret'.op = "CreateCustomMap"
          /\ ret'.fn = NilFn )
        => ( /\ ret'.err = ErrNilFunction
             /\ maps' = maps
             /\ profiles' = profiles ) ]_vars

\* C9 witness: the nil function was refused for a pair with a type that is
\* not struct-shaped while the registry was not empty.
C9_Witness ==
    /\ ret.op = "CreateCustomMap"
    /\ ret.fn = NilFn
    /\ ret.err = ErrNilFunction
    /\ ~StructShaped(ret.TSrc)
    /\ DOMAIN maps # {}

\* C10: for the registered Generated pair (Source, Destination), Map of a
\* slice of N Sources returns a slice of N Destinations whose i-th element
\* is the mapping of the i-th source element.
C10_SliceMapElementwise ==
    ( /\ ret.op = "Map"
      /\ ret.TSrc = SliceOf(<<"Source">>)
      /\ ret.TDst = SliceOf(<<"Destination">>)
      /\ Generated(ValueForm) )
    => ( /\ ret.err = NoErr
         /\ ret.val.t = SliceOf(<<"Destination">>)
         /\ Len(ret.val.e) = Len(ret.src.e)
         /\ \A k \in 1..Len(ret.src.e) :
              /\ ret.val.e[k].t = <<"Destination">>
              /\ \A n \in CommonFields : ret.val.e[k].f[n] = ret.src.e[k].f[n] )

\* the result of the value transfer of the running copy for the source x
\* and the zero value of T
TransferOf(x, T) ==
    IF build = "part_002"
      THEN processValues(x, [addr |-> TRUE, ro |-> FALSE], Zero(T), FALSE)
      ELSE processValues_p3(x, [addr |-> TRUE, ro |-> FALSE], Zero(T), FALSE)

\* C11: the value transfer of a nil source pointer into a pointer leaves the
\* destination nil; of a non-nil source pointer it makes the destination a
\* non-nil pointer into a new allocation, not the source's, whose target is
\* the transfer of the source's target.
C11_PointerTransfer ==
    ( /\ ret.op = "processValues"
      /\ Kind(ret.TSrc) = "ptr"
      /\ Kind(ret.TDst) = "ptr" )
    => ( /\ ret.err = NoErr
         /\ ret.src.nil => ret.val = mkNil(ret.TDst)
         /\ ~ret.src.nil => ( /\ ~ret.val.nil
                              /\ ret.val.t = ret.TDst
                              /\ ret.val.a # ret.src.a
                              /\ ret.val.e[1] = TransferOf(ret.src.e[1], Elem(ret.TDst)) ) )

\* the struct pairs whose profile the registration calls build
ProfilePairs == {<<<<"Source">>, <<"Destination">>>>, <<<<"Tagged">>, <<"TaggedDest">>>>}

\* the last call was a CreateMap that returned nil for a pair of struct types
BuiltProfile ==
    /\ ret.op = "CreateMap"
    /\ ret.err = NoErr
    /\ <<ret.TSrc, ret.TDst>> \in ProfilePairs

\* the profile cached for the pair of the last call
ProfileOfRet == profiles[getProfileKey(ret.TSrc, ret.TDst)]

\* the destination fields that carry the alias tag g
TaggedWith(D, g) ==
    {StructFields(D)[i].name : i \in {j \in 1..Len(StructFields(D)) : StructFields(D)[j].tag = g}}

\* C12: when a source field s carries the alias tag t, the destination has a
\* field named t, and no destination field is named camel-case(s), named s
\* or tagged s, the profile that CreateMap built contains (s, t).
C12_AliasTagToFieldName ==
    BuiltProfile =>
      \A i \in 1..Len(StructFields(ret.TSrc)) :
        LET sf == StructFields(ret.TSrc)[i]
        IN  ( /\ sf.tag # <<>>
              /\ sf.tag \in FieldNames(ret.TDst)
              /\ ToCamel(sf.name) \notin FieldNames(ret.TDst)
              /\ sf.name \notin FieldNames(ret.TDst)
              /\ TaggedWith(ret.TDst, sf.name) = {} )
            => \E k \in 1..Len(ProfileOfRet) : ProfileOfRet[k] = <<sf.name, sf.tag>>

\* C12 witness: CreateMap[Tagged, TaggedDest] returned nil and the profile
\* holds (id, identifier), the correspondence of the field id with the alias
\* tag "identifier".
C12_Witness ==
    /\ BuiltProfile
    /\ ret.TSrc = <<"Tagged">>
    /\ \E k \in 1..Len(ProfileOfRet) : ProfileOfRet[k] = <<<<"i","d">>, <<"i","d","e","n","t","i","f","i","e","r">>>>

\* the destinations that the first matching rule allows for the source
\* field S with alias tag T: (1) the field named camel-case(S), (2) named S,
\* (3) tagged S, (4) named T, (5) tagged T; empty when no rule matches
FirstRuleDest(S, T, D) ==
    IF ToCamel(S) \in FieldNames(D) THEN {ToCamel(S)}
    ELSE IF S \in FieldNames(D) THEN {S}
    ELSE IF TaggedWith(D, S) # {} THEN TaggedWith(D, S)
    ELSE IF T # <<>> /\ T \in FieldNames(D) THEN {T}
    ELSE IF T # <<>> THEN TaggedWith(D, T)
    ELSE {}

\* C13: a CreateMap for an unregistered pair of struct types returns nil
\* also when a source field has no match, and the profile it builds holds,
\* for every source field, no correspondence when no rule matches and
\* otherwise exactly one, to the destination of the first matching rule.
C13_FirstRuleOnce ==
    [][ ( /\ ret'.op = "CreateMap"
          /\ <<ret'.TSrc, ret'.TDst>> \in ProfilePairs
          /\ <<ret'.TSrc, ret'.TDst>> \notin DOMAIN maps
          /\ <<PointerTo(ret'.TSrc), PointerTo(ret'.TDst)>> \notin DOMAIN maps )
        => ( /\ ret'.err = NoErr
             /\ getProfileKey(ret'.TSrc, ret'.TDst) \in DOMAIN profiles'
             /\ LET prof == profiles'[getProfileKey(ret'.TSrc, ret'.TDst)]
                IN  \A i \in 1..Len(StructFields(ret'.TSrc)) :
                      LET sf == StructFields(ret'.TSrc)[i]
                          at == {k \in 1..Len(prof) : prof[k][1] = sf.name}
                          to == FirstRuleDest(sf.name, sf.tag, ret'.TDst)
                      IN  IF to = {} THEN at = {}
                          ELSE /\ Cardinality(at) = 1
                               /\ \A k \in at : prof[k][2] \in to ) ]_vars

\* the position of the field n in the declaration of the struct type T
DeclIndex(T, n) == CHOOSE i \in 1..Len(StructFields(T)) : StructFields(T)[i].name = n

\* C14: the profile that CreateMap built lists the field correspondences in
\* the declaration order of the source fields, so that every build for the
\* pair gives the same list.
C14_ProfileInDeclarationOrder ==
    BuiltProfile =>
      \A j, k \in 1..Len(ProfileOfRet) :
        j < k => DeclIndex(ret.TSrc, ProfileOfRet[j][1]) <= DeclIndex(ret.TSrc, ProfileOfRet[k][1])

\* what a single sequential Map[Source, Destination](src) returns in the
\* current state of the package
SequentialMap(src) ==
    IF build = "part_002" THEN MapResult(<<"Source">>, <<"Destination">>, src)
                          ELSE MapResult_p3(<<"Source">>, <<"Destination">>, src)

\* C15: a step of a Map call changes neither the registry, the profile
\* cache nor the Config, and a Map call during which none of them was
\* written returns what a sequential Map of its source returns, whatever
\* the other goroutines' Map calls do meanwhile.
C15_ConcurrentMapsAgree ==
    [][ \A g \in Goroutines :
          ( /\ gor[g].op = "Map"
            /\ gor[g].pc \in {"lookup", "transfer"}
            /\ gor'[g].pc # gor[g].pc )
          => ( /\ maps' = maps
               /\ profiles' = profiles
               /\ mapperConfig' = mapperConfig
               /\ ( gor'[g].pc = "done" /\ gor'[g].clean )
                    => ( /\ gor'[g].err = SequentialMap(gor[g].src).err
                         /\ gor'[g].val = SequentialMap(gor[g].src).val ) ) ]_vars

\* C15 witness: on the registered pair with its profile cached, one Map
\* call has returned the copy of its source while another Map call of an
\* equal source is between its lookup and its value transfer.
C15_Witness ==
    \E g, h \in Goroutines :
        /\ g # h
        /\ getProfileKey(<<"Source">>, <<"Destination">>) \in DOMAIN profiles
        /\ gor[g].op = "Map" /\ gor[g].pc = "done" /\ gor[g].clean
        /\ gor[g].err = NoErr
        /\ \A n \in CommonFields : gor[g].val.f[n] = gor[g].src.f[n]
        /\ gor[h].op = "Map" /\ gor[h].pc = "transfer" /\ gor[h].clean
        /\ gor[h].src = gor[g].src

\* C16: of two CreateMap calls for the pair that both began on the empty
\* registry, and so ran concurrently, exactly one has returned nil and the
\* other ErrMapAlreadyExists.
C16_RegistrationExclusive ==
    \A g, h \in Goroutines :
        ( /\ g # h
          /\ gor[g].op = "CreateMap" /\ gor[g].pc = "done" /\ gor[g].fresh
          /\ gor[h].op = "CreateMap" /\ gor[h].pc = "done" /\ gor[h].fresh )
        => {gor[g].err, gor[h].err} = {NoErr, ErrMapAlreadyExists}

\* C17: the recursion of processValues in a Map never enters a source value
\* whose mapStructs is still active, so that its depth is bounded by the
\* number of values of the source and the Map returns.
C17_RecursionBounded ==
    \A i, j \in 1..Len(walk.stack) : i # j => walk.stack[i] # walk.stack[j]

\* the type that the catalog resolves the arguments of the last call to
ResolvedOfRet ==
    IF ret.op = "InstanceByPackageName"
      THEN IF ret.pkg \in DOMAIN packages /\ ret.name \in DOMAIN packages[ret.pkg]
             THEN packages[ret.pkg][ret.name] ELSE NilType
      ELSE IF ret.name \in DOMAIN types THEN types[ret.name] ELSE NilType

C19_InstancePointerByName ==
    ret.op = "InstancePointerByTypeName"
    => IF ret.name \notin DOMAIN types
         THEN ret.err = NoErr /\ ret.val = NoValue
         ELSE LET typ == types[ret.name]
                  elem == IF Kind(typ) = "ptr" THEN Elem(typ) ELSE typ
              IN  /\ ret.err = NoErr
                  /\ ~ret.val.nil
                  /\ ret.val.t = PointerTo(elem)
                  /\ ret.val.e[1] = Zero(elem)

\* what the contract of NewListQueryFromQueryParams asks for: each field is
\* the number its own argument parses to, or its default
ParsedOr(s, default) ==
    LET r == Atoi(s)
    IN  IF r.err = NoErr /\ r.n # IntZero THEN r.n ELSE default

\* C20: NewListQueryFromQueryParams(size, page) returns a query whose Size is
\* the integer value of size when size parses to a non-zero integer and 10
\* otherwise, and whose Page is the integer value of page when page parses to
\* a non-zero integer and 1 otherwise; page never changes Size.
C20_ListQueryFromParams ==
    ret.op = "NewListQueryFromQueryParams" =>
        /\ ret.val.Size = ParsedOr(ret.size, [neg |-> FALSE, mag |-> <<1, 0>>])
        /\ ret.val.Page = ParsedOr(ret.page, [neg |-> FALSE, mag |-> <<1>>])
        /\ ret.val.Size = NewListQueryFromQueryParams(ret.size, <<>>).Size

\* C21: a Map that runs concurrently with the CreateMap of its pair never
\* observes a half-done registration: when its lookup finds the pair in the
\* registry (it does not return ErrMapNotExist), the profile of the pair is
\* in the profile cache.
C21_NoHalfDoneRegistration ==
    [][ \A g \in Goroutines :
          ( /\ gor[g].op = "Map"
            /\ gor[g].pc = "lookup"
            /\ gor'[g].pc # "lookup"
            /\ ~(gor'[g].pc = "done" /\ gor'[g].err = ErrMapNotExist) )
          => getProfileKey(<<"Source">>, <<"Destination">>) \in DOMAIN profiles ]_vars

\* C22: once a pair is registered no later operation removes or changes its
\* registry entry or the profile cached for it, also not the registration
\* of another pair whose types have the same short names.
C22_RegisteredPairsKept ==
    [][ /\ \A k \in DOMAIN maps : k \in DOMAIN maps' /\ maps'[k] = maps[k]
        /\ \A pk \in DOMAIN profiles :
              pk \in DOMAIN profiles' /\ profiles'[pk] = profiles[pk] ]_vars

\* C23: when the registry entry of (Source, Destination) holds a function
\* fn, Map of a slice [s1..sN] of Sources into a slice of Destinations
\* returns a nil error and [fn(s1)..fn(sN)] in that order: the value
\* transfer that runs after mapArray does not replace or reset the result.
C23_CustomSliceMapKept ==
    ( /\ ret.op = "Map"
      /\ ret.TSrc = SliceOf(<<"Source">>)
      /\ ret.TDst = SliceOf(<<"Destination">>)
      /\ ValueForm \in DOMAIN maps
      /\ maps[ValueForm] \in Fns )
    => ( /\ ret.err = NoErr
         /\ Len(ret.val.e) = Len(ret.src.e)
         /\ \A k \in 1..Len(ret.src.e) :
              ret.val.e[k] = ExpectedOfFn(maps[ValueForm], ret.src.e[k]) )

\* C24: the profile of the registered pair (Person, PersonDst) holds the
\* correspondence (m, m) for exactly the methods m of Person that take no
\* argument (Call(nil) does not panic) and are named as a field of
\* PersonDst, and Map of a Person returns a nil error with the field Full
\* set to the result of the method Full, which is the source's First.
C24_ZeroArgMethodCorrespondences ==
    LET key == getProfileKey(<<"Person">>, <<"PersonDst">>)
        ms == getTypeMethods(<<"Person">>)
    IN  /\ ( /\ key \in DOMAIN profiles
              /\ <<<<"Person">>, <<"PersonDst">>>> \in created )
            => \A k \in 1..Len(ms) :
                 (\E i \in 1..Len(profiles[key]) : profiles[key][i] = <<ms[k], ms[k]>>)
                 <=> ( /\ ms[k] \in FieldNames(<<"PersonDst">>)
                       /\ getFieldValueFromMethod(Zero(<<"Person">>), ms[k]) # PanicV )
        /\ ( /\ ret.op = "Map"
              /\ ret.TSrc = <<"Person">>
              /\ ret.TDst = <<"PersonDst">>
              /\ Generated(<<<<"Person">>, <<"PersonDst">>>>)
              /\ key \in DOMAIN profiles )
            => ( /\ ret.err = NoErr
                 /\ ret.val.f[<<"F","u","l","l">>] = ret.src.f[<<"F","i","r","s","t">>] )

\* C25: the value transfer called with a source and a destination of
\* different kinds, or with the invalid Value on either side, returns
\* without a panic and leaves the destination as it was (the zero value it
\* was called with).
C25_KindMismatchIsNoOp ==
    ( /\ ret.op = "processValues"
      /\ \/ ret.TSrc = <<>>
         \/ ret.TDst = <<>>
         \/ Kind(ret.TSrc) # Kind(ret.TDst) )
    => ( /\ ret.err = NoErr
         /\ ret.val = IF ret.TDst = <<>> THEN NoValue ELSE Zero(ret.TDst) )

\* C26: with the pairs (Outer, OuterDst) and (Inner, InnerDst) registered
\* by CreateMap, Map of an Outer returns a nil error and an OuterDst whose
\* field In is the InnerDst that the profile of (Inner, InnerDst) yields for
\* the source's field In.
C26_NestedStructTransfer ==
    ( /\ ret.op = "Map"
      /\ ret.TSrc = <<"Outer">>
      /\ ret.TDst = <<"OuterDst">>
      /\ Generated(<<<<"Outer">>, <<"OuterDst">>>>)
      /\ Generated(<<<<"Inner">>, <<"InnerDst">>>>)
      /\ getProfileKey(<<"Outer">>, <<"OuterDst">>) \in DOMAIN profiles
      /\ getProfileKey(<<"Inner">>, <<"InnerDst">>) \in DOMAIN profiles )
    => ( /\ ret.err = NoErr
         /\ ret.val.t = <<"OuterDst">>
         /\ ret.val.f[<<"I","n">>].t = <<"InnerDst">>
         /\ ret.val.f[<<"I","n">>].f[<<"V">>] = ret.src.f[<<"I","n">>].f[<<"V">>] )

\* C27: the value transfer of a map[string]int with N entries into a
\* map[string]int returns without a panic a map with exactly N entries that
\* holds, for every source entry (k, v), the transfer of k with the
\* transfer of v, an int.
C27_MapTransferKeepsEntries ==
    ( /\ ret.op = "processValues"
      /\ ret.TSrc = <<"map", "string", "int">>
      /\ ret.TDst = <<"map", "string", "int">> )
    => ( /\ ret.err = NoErr
         /\ Cardinality(DOMAIN ret.val.f) = Cardinality(DOMAIN ret.src.f)
         /\ \A k \in DOMAIN ret.src.f :
              LET dk == TransferOf(k, <<"string">>)
              IN  /\ dk \in DOMAIN ret.val.f
                  /\ ret.val.f[dk].t = <<"int">>
                  /\ ret.val.f[dk] = TransferOf(ret.src.f[k], <<"int">>) )

\* C28: with the pair (Account, AccountDst) registered by CreateMap, whose
\* profile takes the unexported field secret to Code, Map of an Account, or
\* of a slice of Accounts, returns a nil error and sets Code under the
\* current Config: to the value of the field secret when
\* MapUnexportedFields is true, and to the result of the method Secret when
\* it is false.
C28_UnexportedFieldUnderConfig ==
    LET expected(x) ==
            IF mapperConfig.MapUnexportedFields THEN x.f[<<"s","e","c","r","e","t">>]
            ELSE getFieldValueFromMethod(x, <<"S","e","c","r","e","t">>)
    IN  ( /\ ret.op = "Map"
          /\ Generated(<<<<"Account">>, <<"AccountDst">>>>)
          /\ getProfileKey(<<"Account">>, <<"AccountDst">>) \in DOMAIN profiles )
        => /\ ( ret.TSrc = <<"Account">> /\ ret.TDst = <<"AccountDst">> )
               => ( /\ ret.err = NoErr
                    /\ ret.val.f[<<"C","o","d","e">>] = expected(ret.src) )
           /\ ( ret.TSrc = SliceOf(<<"Account">>) /\ ret.TDst = SliceOf(<<"AccountDst">>) )
               => ( /\ ret.err = NoErr
                    /\ Len(ret.val.e) = Len(ret.src.e)
                    /\ \A k \in 1..Len(ret.src.e) :
                         ret.val.e[k].f[<<"C","o","d","e">>] = expected(ret.src.e[k]) )

====
